---- MODULE Spec2Model ----
(***************************************************************************)
(* WaterWise: the usage analytics (services/api/openMeteo.ts), the         *)
(* recommendation composer (services/ai/waterAdvisor.ts) and the record    *)
(* store they read (services/db).                                          *)
(*                                                                         *)
(* JavaScript numbers are modelled as exact rationals <<n, d>> with the    *)
(* IEEE special values NaN = <<0,0>>, +Infinity = <<1,0>> and              *)
(* -Infinity = <<-1,0>>; the rounding of binary floating point is not      *)
(* modelled.  A date string YYYY-MM-DD is the record [y, m, d]; a string   *)
(* that is sorted or compared as text is a sequence of UTF-16 code units.  *)
(***************************************************************************)
EXTENDS Integers, Sequences, FiniteSets, TLC

VARIABLES
    platform, \* Platform.OS: "web" (the localStorage store) or "native" (SQLite)
    initPromise, \* database.ts `initPromise` is non-null
    tz,       \* the device's UTC offset in hours (what Date's local getters use)
    today,    \* the UTC calendar date of `new Date()`
    dbOpen,   \* database.ts `db` is non-null
    usage,    \* rows of table usage, in rowid order
    bills,    \* rows of table bills, in rowid order
    nextId,   \* the next AUTOINCREMENT id of table usage
    op,       \* the analytics call in flight, or "idle"
    rd,       \* the database reads that call has issued, and their answers
    adv,      \* generateRecommendations: the await it is at, and what it has read
    out,      \* the settled promise of the last call, until its caller takes it
    kept,     \* the result the caller holds on to (AnalyticsScreen's `report` state)
    monthsArg, \* the `months` argument of the last calculateMonthlyTrends call
    lastInit, \* how initDatabase() settled, if it is the last database.ts call completed
    file,     \* the JSON document the last exportToJSON wrote
    settings, \* AsyncStorage '@waterwise_notifications', as getNotificationSettings reads it
    lastReminder, \* AsyncStorage '@waterwise_last_reminder'
    reminder, \* the shouldShowDailyReminder calls: the await each is at, and its locals
    shownToday, \* how many shouldShowDailyReminder calls have returned true today
    cache,    \* rows of table cache, by key
    clock     \* Date.now(), in milliseconds

vars == <<platform, initPromise, tz, today, dbOpen, usage, bills, nextId, op, rd, adv, out,
          kept, monthsArg, lastInit, file, settings, lastReminder, reminder, shownToday,
          cache, clock>>

reminderVars == <<settings, lastReminder, reminder, shownToday>>
cacheVars == <<cache, clock>>

\* what the analytics, the advisor and the store's writers leave alone
sideVars == <<file, reminderVars, cacheVars>>

-----------------------------------------------------------------------------
(* JavaScript number arithmetic *)

Abs(x) == IF x < 0 THEN -x ELSE x

RECURSIVE Gcd(_, _)
Gcd(a, b) == IF b = 0 THEN a ELSE Gcd(b, a % b)

NaN == <<0, 0>>

Rat(n, d) ==
    IF d = 0
    THEN (IF n = 0 THEN NaN ELSE IF n > 0 THEN <<1, 0>> ELSE <<-1, 0>>)
    ELSE LET g == Gcd(Abs(n), Abs(d))
             s == IF d < 0 THEN -1 ELSE 1
         IN  <<(s * n) \div g, (s * d) \div g>>

Num(n) == <<n, 1>>

JsAdd(a, b) == Rat(a[1] * b[2] + b[1] * a[2], a[2] * b[2])
JsSub(a, b) == Rat(a[1] * b[2] - b[1] * a[2], a[2] * b[2])
JsMul(a, b) == Rat(a[1] * b[1], a[2] * b[2])
JsDiv(a, b) == Rat(a[1] * b[2], a[2] * b[1])
JsGt(a, b)  == a # NaN /\ b # NaN /\ a[1] * b[2] > b[1] * a[2]
JsLt(a, b)  == JsGt(b, a)

\* arr.reduce((sum, v) => sum + v, 0)
RECURSIVE ReduceSum(_, _, _)
ReduceSum(arr, i, sum) ==
    IF i > Len(arr) THEN sum ELSE ReduceSum(arr, i + 1, JsAdd(sum, Num(arr[i])))

-----------------------------------------------------------------------------
(* Date: new Date("YYYY-MM-DD") is UTC midnight of that day; getDay,        *)
(* getMonth and getFullYear read the instant in the device's time zone.    *)
(* Instants are counted in hours since 1970-01-01T00:00Z.                  *)

\* days since 1970-01-01 of a civil date
DaysOfEra(era, yoe, doy) == era * 146097 + yoe * 365 + yoe \div 4 - yoe \div 100 + doy - 719468

DaysOfYear(y, mp, d) == DaysOfEra(y \div 400, y % 400, (153 * mp + 2) \div 5 + d - 1)

DaysFromCivil(y, m, d) ==
    DaysOfYear(IF m <= 2 THEN y - 1 ELSE y, IF m > 2 THEN m - 3 ELSE m + 9, d)

\* the civil date of a count of days since 1970-01-01
CivilOfMonth(y, m, d) == [y |-> IF m <= 2 THEN y + 1 ELSE y, m |-> m, d |-> d]

CivilOfMp(y, doy, mp) ==
    CivilOfMonth(y, IF mp < 10 THEN mp + 3 ELSE mp - 9, doy - (153 * mp + 2) \div 5 + 1)

CivilOfDoy(y, doy) == CivilOfMp(y, doy, (5 * doy + 2) \div 153)

CivilOfYoe(era, doe, yoe) ==
    CivilOfDoy(yoe + era * 400, doe - (365 * yoe + yoe \div 4 - yoe \div 100))

CivilOfEra(era, doe) ==
    CivilOfYoe(era, doe, (doe - doe \div 1460 + doe \div 36524 - doe \div 146096) \div 365)

CivilOfShifted(z) == CivilOfEra(z \div 146097, z % 146097)

CivilFromDays(z) == CivilOfShifted(z + 719468)

\* new Date(str) for a date-only ISO string: UTC midnight
DateParse(s) == DaysFromCivil(s.y, s.m, s.d) * 24

LocalDayNumber(t) == (t + tz) \div 24

\* Date.prototype.getDay: 0 = Sunday; 1970-01-01 was a Thursday
GetDay(t) == (LocalDayNumber(t) + 4) % 7

GetFullYear(t) == CivilFromDays(LocalDayNumber(t)).y

\* Date.prototype.getMonth: 0 = January
GetMonth(t) == CivilFromDays(LocalDayNumber(t)).m - 1

-----------------------------------------------------------------------------
(* Strings as sequences of code units: "0" is 48, "-" is 45 *)

RECURSIVE NumToString(_)
NumToString(n) ==
    IF n < 10 THEN <<48 + n>> ELSE NumToString(n \div 10) \o <<48 + (n % 10)>>

RECURSIVE PadStart(_, _, _)
PadStart(s, len, ch) == IF Len(s) >= len THEN s ELSE PadStart(<<ch>> \o s, len, ch)

\* the default comparison of Array.prototype.sort: by code units
RECURSIVE StrLess(_, _)
StrLess(a, b) ==
    IF a = <<>> THEN b # <<>>
    ELSE IF b = <<>> THEN FALSE
    ELSE IF a[1] # b[1] THEN a[1] < b[1]
    ELSE StrLess(Tail(a), Tail(b))

\* `${date.getFullYear()}-${String(date.getMonth() + 1).padStart(2, '0')}`
MonthKey(t) == NumToString(GetFullYear(t)) \o <<45>> \o PadStart(NumToString(GetMonth(t) + 1), 2, 48)

-----------------------------------------------------------------------------
(* Date strings compared as SQLite and JavaScript compare text *)

DateStr(s) ==
    PadStart(NumToString(s.y), 4, 48) \o <<45>> \o PadStart(NumToString(s.m), 2, 48)
        \o <<45>> \o PadStart(NumToString(s.d), 2, 48)

\* ORDER BY date DESC; rows of equal date stay in rowid order
RECURSIVE InsertByDateDesc(_, _)
InsertByDateDesc(sorted, row) ==
    IF sorted = <<>> THEN <<row>>
    ELSE IF StrLess(DateStr(Head(sorted).date), DateStr(row.date))
         THEN <<row>> \o sorted
         ELSE <<Head(sorted)>> \o InsertByDateDesc(Tail(sorted), row)

RECURSIVE OrderByDateDesc(_)
OrderByDateDesc(rows) ==
    IF rows = <<>> THEN <<>>
    ELSE InsertByDateDesc(OrderByDateDesc(SubSeq(rows, 1, Len(rows) - 1)), rows[Len(rows)])

\* a sort of the stored table itself
TableSortedInPlace(table) == OrderByDateDesc(table)

\* the table after a SELECT: SQLite reads write nothing, and WebDatabase.getAllAsync
\* sorts the array getTable parsed out of localStorage, never the stored one
TableAfterSelect(table) == table

\* 'SELECT * FROM usage ORDER BY date DESC'
SelectAllUsage == OrderByDateDesc(usage)

\* 'SELECT * FROM bills ORDER BY date DESC'
SelectAllBills == OrderByDateDesc(bills)

-----------------------------------------------------------------------------
(* analyzeUsagePatterns, on the rows its read returned *)

dayNames == <<"Sunday", "Monday", "Tuesday", "Wednesday", "Thursday", "Friday", "Saturday">>

\* usage.forEach(u => dayMap[new Date(u.date).getDay()].push(u.liters))
RECURSIVE FillDayMap(_, _, _)
FillDayMap(rows, i, dayMap) ==
    IF i > Len(rows) THEN dayMap
    ELSE LET dayOfWeek == GetDay(DateParse(rows[i].date))
         IN  FillDayMap(rows, i + 1, [dayMap EXCEPT ![dayOfWeek] = Append(@, rows[i].liters)])

\* the average pushed for weekday i
DayAverage(list) == JsDiv(ReduceSum(list, 1, Num(0)), Num(Len(list)))

\* for (let i = 0; i < 7; i++) if (dayMap[i].length > 0) patterns.push(...)
RECURSIVE PatternLoop(_, _, _)
PatternLoop(dayMap, i, patterns) ==
    IF ~(i < 7) THEN patterns
    ELSE IF Len(dayMap[i]) > 0
         THEN PatternLoop(dayMap, i + 1,
                  Append(patterns, [dayOfWeek |-> dayNames[i + 1],
                                    averageUsage |-> DayAverage(dayMap[i])]))
         ELSE PatternLoop(dayMap, i + 1, patterns)

PatternsOf(rows) == PatternLoop(FillDayMap(rows, 1, [i \in 0..6 |-> <<>>]), 0, <<>>)

-----------------------------------------------------------------------------
(* calculateMonthlyTrends, on the rows its two reads returned.  monthMap    *)
(* is an object: keys in insertion order, and a value per key.             *)

EmptyMonthMap == [keys |-> <<>>, val |-> <<>>]

KeyIndex(mm, k) ==
    IF \E i \in 1..Len(mm.keys) : mm.keys[i] = k
    THEN CHOOSE i \in 1..Len(mm.keys) : mm.keys[i] = k
    ELSE 0

\* if (!monthMap[monthKey]) monthMap[monthKey] = { usage: 0, cost: 0, days: new Set() }
EnsureKey(mm, k) ==
    IF KeyIndex(mm, k) # 0 THEN mm
    ELSE [keys |-> Append(mm.keys, k),
          val  |-> Append(mm.val, [usage |-> Num(0), cost |-> Num(0), days |-> {}])]

\* monthMap[monthKey].usage += u.liters; monthMap[monthKey].days.add(u.date)
AddUsageAt(mm, i, u) ==
    [mm EXCEPT !.val[i].usage = JsAdd(@, Num(u.liters)), !.val[i].days = @ \cup {u.date}]

UsageAtKey(mm, k, u) == AddUsageAt(mm, KeyIndex(mm, k), u)

UsageIntoMonthMap(mm, u) ==
    UsageAtKey(EnsureKey(mm, MonthKey(DateParse(u.date))), MonthKey(DateParse(u.date)), u)

\* monthMap[monthKey].cost += b.amount
AddCostAt(mm, i, b) == [mm EXCEPT !.val[i].cost = JsAdd(@, Num(b.amount))]

BillAtKey(mm, k, b) == AddCostAt(mm, KeyIndex(mm, k), b)

BillIntoMonthMap(mm, b) ==
    BillAtKey(EnsureKey(mm, MonthKey(DateParse(b.date))), MonthKey(DateParse(b.date)), b)

RECURSIVE FillUsageMonths(_, _, _)
FillUsageMonths(rows, i, mm) ==
    IF i > Len(rows) THEN mm ELSE FillUsageMonths(rows, i + 1, UsageIntoMonthMap(mm, rows[i]))

RECURSIVE FillBillMonths(_, _, _)
FillBillMonths(rows, i, mm) ==
    IF i > Len(rows) THEN mm ELSE FillBillMonths(rows, i + 1, BillIntoMonthMap(mm, rows[i]))

\* Array.prototype.sort() with no comparator
RECURSIVE InsertSorted(_, _)
InsertSorted(sorted, k) ==
    IF sorted = <<>> THEN <<k>>
    ELSE IF StrLess(k, Head(sorted)) THEN <<k>> \o sorted
    ELSE <<Head(sorted)>> \o InsertSorted(Tail(sorted), k)

RECURSIVE SortStrings(_)
SortStrings(keys) ==
    IF keys = <<>> THEN <<>>
    ELSE InsertSorted(SortStrings(SubSeq(keys, 1, Len(keys) - 1)), keys[Len(keys)])

\* Array.prototype.slice(start): a negative start counts from the end
Slice(arr, start) ==
    LET k == IF start < 0 THEN (IF Len(arr) + start > 0 THEN Len(arr) + start ELSE 0)
             ELSE (IF start < Len(arr) THEN start ELSE Len(arr))
    IN  SubSeq(arr, k + 1, Len(arr))

\* the sorted keys without the slice
SortedMonthsUnsliced(mm, months) == SortStrings(mm.keys)

\* Object.keys(monthMap).sort().slice(-months)
SortedMonths(mm, months) == Slice(SortStrings(mm.keys), 0 - months)

\* const daysInMonth = data.days.size || 1
DaysInMonth(data) == IF Cardinality(data.days) # 0 THEN Cardinality(data.days) ELSE 1

\* the entry pushed for monthKey
TrendOfData(monthKey, data) ==
    [month |-> monthKey, totalUsage |-> data.usage, totalCost |-> data.cost,
     averageDaily |-> JsDiv(data.usage, Num(DaysInMonth(data)))]

TrendEntry(mm, monthKey) == TrendOfData(monthKey, mm.val[KeyIndex(mm, monthKey)])

\* sortedMonths.forEach(monthKey => trends.push(...))
TrendsOver(mm, sortedMonths) ==
    [j \in 1..Len(sortedMonths) |-> TrendEntry(mm, sortedMonths[j])]

TrendsOfMap(mm, months) == TrendsOver(mm, SortedMonths(mm, months))

TrendsOf(usageRows, billRows, months) ==
    TrendsOfMap(FillBillMonths(billRows, 1, FillUsageMonths(usageRows, 1, EmptyMonthMap)), months)

\* calculateMonthlyTrends(months: number = 6)
DefaultMonths == 6


-----------------------------------------------------------------------------
(* identifySavingsOpportunities, on the rows its read returned.  Beside    *)
(* the list it returns, the divisors of the divisions it performed are     *)
(* recorded.                                                               *)

\* new Set(usage.map(u => u.date)).size
DistinctDates(rows) == Cardinality({rows[i].date : i \in 1..Len(rows)})

\* usage.reduce((sum, u) => sum + u.liters, 0)
TotalLiters(rows) == ReduceSum([i \in 1..Len(rows) |-> rows[i].liters], 1, Num(0))

\* const priorityOrder = { high: 0, medium: 1, low: 2 }
priorityOrder(p) == CASE p = "high" -> 0 [] p = "medium" -> 1 [] p = "low" -> 2

\* an insertion that puts an entry before the entries of its own priority
RECURSIVE InsertBeforeEqual(_, _)
InsertBeforeEqual(sorted, o) ==
    IF sorted = <<>> THEN <<o>>
    ELSE IF priorityOrder(o.priority) - priorityOrder(Head(sorted).priority) <= 0
         THEN <<o>> \o sorted
         ELSE <<Head(sorted)>> \o InsertBeforeEqual(Tail(sorted), o)

\* opportunities.sort((a, b) => priorityOrder[a.priority] - priorityOrder[b.priority]),
\* a stable sort
RECURSIVE InsertByPriority(_, _)
InsertByPriority(sorted, o) ==
    IF sorted = <<>> THEN <<o>>
    ELSE IF priorityOrder(o.priority) - priorityOrder(Head(sorted).priority) < 0
         THEN <<o>> \o sorted
         ELSE <<Head(sorted)>> \o InsertByPriority(Tail(sorted), o)

RECURSIVE SortByPriority(_)
SortByPriority(list) ==
    IF list = <<>> THEN <<>>
    ELSE InsertByPriority(SortByPriority(SubSeq(list, 1, Len(list) - 1)), list[Len(list)])

\* the savings of a week, not of a 30-day month
OpportunityPerWeek(category, currentUsage, recommendedUsage, priority) ==
    [category |-> category, currentUsage |-> currentUsage,
     recommendedUsage |-> Num(recommendedUsage),
     potentialSavings |-> JsMul(JsSub(currentUsage, Num(recommendedUsage)), Num(7)),
     priority |-> priority]

Opportunity(category, currentUsage, recommendedUsage, priority) ==
    [category |-> category, currentUsage |-> currentUsage,
     recommendedUsage |-> Num(recommendedUsage),
     potentialSavings |-> JsMul(JsSub(currentUsage, Num(recommendedUsage)), Num(30)),
     priority |-> priority]

\* if (showerUsage > 50) opportunities.push(...)
ShowerPush(showerUsage) ==
    IF JsGt(showerUsage, Num(50))
    THEN <<Opportunity("Shower & Bath", showerUsage, 40, "high")>> ELSE <<>>

\* const showerUsage = dailyAvg * 0.35
ShowerCheck(dailyAvg) == ShowerPush(JsMul(dailyAvg, Rat(35, 100)))

\* if (toiletUsage > 30) opportunities.push(...)
ToiletPush(toiletUsage) ==
    IF JsGt(toiletUsage, Num(30))
    THEN <<Opportunity("Toilet", toiletUsage, 24, "medium")>> ELSE <<>>

\* const toiletUsage = dailyAvg * 0.27
ToiletCheck(dailyAvg) == ToiletPush(JsMul(dailyAvg, Rat(27, 100)))

\* the Kitchen check with the threshold 25 for 20
KitchenPushAbove25(kitchenUsage) ==
    IF JsGt(kitchenUsage, Num(25))
    THEN <<Opportunity("Kitchen", kitchenUsage, 15, "medium")>> ELSE <<>>

\* if (kitchenUsage > 20) opportunities.push(...)
KitchenPush(kitchenUsage) ==
    IF JsGt(kitchenUsage, Num(20))
    THEN <<Opportunity("Kitchen", kitchenUsage, 15, "medium")>> ELSE <<>>

\* const kitchenUsage = dailyAvg * 0.20
KitchenCheck(dailyAvg) == KitchenPush(JsMul(dailyAvg, Rat(20, 100)))

\* the General check with >= for >
GeneralCheckInclusive(dailyAvg) ==
    IF ~JsLt(dailyAvg, Num(150))
    THEN <<[category |-> "General", currentUsage |-> dailyAvg, recommendedUsage |-> Num(100),
            potentialSavings |-> JsMul(JsSub(dailyAvg, Num(100)), Num(30)),
            priority |-> "high"]>>
    ELSE <<>>

\* if (dailyAvg > 150) opportunities.push(...)
GeneralCheck(dailyAvg) ==
    IF JsGt(dailyAvg, Num(150))
    THEN <<Opportunity("General", dailyAvg, 100, "high")>> ELSE <<>>

\* the four checks in the order of the code, then the sort
Heuristics(dailyAvg) ==
    SortByPriority(ShowerCheck(dailyAvg) \o ToiletCheck(dailyAvg)
                   \o KitchenCheck(dailyAvg) \o GeneralCheck(dailyAvg))

\* const dailyAvg = totalUsage / days
DailyAverage(totalUsage, days) ==
    [list |-> Heuristics(JsDiv(totalUsage, Num(days))), divisors |-> <<days>>]

\* the early return left out
EmptyGuardMissing(rows) == FALSE

\* if (usage.length === 0) return opportunities
EmptyGuard(rows) == Len(rows) = 0

OpportunitiesOf(rows) ==
    IF EmptyGuard(rows) THEN [list |-> <<>>, divisors |-> <<>>]
    ELSE DailyAverage(TotalLiters(rows), DistinctDates(rows))

-----------------------------------------------------------------------------
(* generateUsageReport's summary, on the rows its own two reads returned *)

\* bills.reduce((sum, b) => sum + b.amount, 0)
TotalAmount(rows) == ReduceSum([i \in 1..Len(rows) |-> rows[i].amount], 1, Num(0))

\* the division without its guard
SummaryUnguarded(totalUsage, totalCost, totalDays) ==
    [totalDays |-> totalDays, totalUsage |-> totalUsage,
     averageDaily |-> JsDiv(totalUsage, Num(totalDays)), totalCost |-> totalCost]

\* const averageDaily = totalDays > 0 ? totalUsage / totalDays : 0
Summary(totalUsage, totalCost, totalDays) ==
    [totalDays |-> totalDays, totalUsage |-> totalUsage,
     averageDaily |-> IF totalDays > 0 THEN JsDiv(totalUsage, Num(totalDays)) ELSE Num(0),
     totalCost |-> totalCost]

SummaryOf(usageRows, billRows) ==
    Summary(TotalLiters(usageRows), TotalAmount(billRows), DistinctDates(usageRows))

-----------------------------------------------------------------------------
(* waterAdvisor.ts: what generateRecommendations reads and composes *)

RECOMMENDED_DAILY_USAGE == 100

Undefined == <<>>

\* 'SELECT COALESCE(SUM(liters), 0) as total FROM usage WHERE date = ?'
TotalUsageByDate(date) == TotalLiters(SelectSeq(usage, LAMBDA u : u.date = date))

\* startDate.setDate(startDate.getDate() - days); startDate.toISOString().split('T')[0]
StartDateStr(days) == DateStr(CivilFromDays(DaysFromCivil(today.y, today.m, today.d) - days))

\* COALESCE(AVG(daily_total), 0) over the rows grouped by date
AverageOfDays(rows) ==
    IF Len(rows) = 0 THEN Num(0) ELSE JsDiv(TotalLiters(rows), Num(DistinctDates(rows)))

\* getAverageDailyUsage(days): ... FROM usage WHERE date >= ? GROUP BY date.
\* WebDatabase.getFirstAsync answers this query in its 'sum(liters)' branch with
\* { total }, so `result?.avg || 0` is 0 there.
AverageDailyUsage(days) ==
    IF platform = "web" THEN Num(0)
    ELSE AverageOfDays(SelectSeq(usage, LAMBDA u : ~StrLess(DateStr(u.date), StartDateStr(days))))

\* 'SELECT COALESCE(SUM(consumptionLiters), 0) as total FROM bills'
TotalConsumption ==
    ReduceSum([i \in 1..Len(bills) |-> bills[i].consumptionLiters], 1, Num(0))

\* the first comparison with >= in place of >
TrendInclusive(recentAvg, olderAvg) ==
    IF ~JsLt(recentAvg, JsMul(olderAvg, Rat(11, 10))) THEN "increasing"
    ELSE IF JsLt(recentAvg, JsMul(olderAvg, Rat(9, 10))) THEN "decreasing"
    ELSE "stable"

\* getUserUsageAnalysis: the trend of the 7-day average against the 30-day average
Trend(recentAvg, olderAvg) ==
    IF JsGt(recentAvg, JsMul(olderAvg, Rat(11, 10))) THEN "increasing"
    ELSE IF JsLt(recentAvg, JsMul(olderAvg, Rat(9, 10))) THEN "decreasing"
    ELSE "stable"

\* getBillsAnalysis: totalConsumption > 0 ? totalCost / totalConsumption : 0
AverageCostPerLiter(billRows, totalConsumption) ==
    IF JsGt(totalConsumption, Num(0)) THEN JsDiv(TotalAmount(billRows), totalConsumption)
    ELSE Num(0)

Recommendation(type, priority, title, potentialSavings) ==
    [type |-> type, priority |-> priority, title |-> title, potentialSavings |-> potentialSavings]

\* the comparison with >= in place of >
UsagePushInclusive(avgDailyUsage) ==
    IF ~JsLt(avgDailyUsage, Num(RECOMMENDED_DAILY_USAGE))
    THEN <<Recommendation("usage", "high", "Reduce Daily Water Usage",
               JsMul(JsSub(avgDailyUsage, Num(RECOMMENDED_DAILY_USAGE)), Num(30)))>>
    ELSE <<Recommendation("usage", "low", "Excellent Water Conservation!", Undefined)>>

\* if (usageAnalysis.avgDailyUsage > RECOMMENDED_DAILY_USAGE) ... else ...
UsagePush(avgDailyUsage) ==
    IF JsGt(avgDailyUsage, Num(RECOMMENDED_DAILY_USAGE))
    THEN <<Recommendation("usage", "high", "Reduce Daily Water Usage",
               JsMul(JsSub(avgDailyUsage, Num(RECOMMENDED_DAILY_USAGE)), Num(30)))>>
    ELSE <<Recommendation("usage", "low", "Excellent Water Conservation!", Undefined)>>

\* if (usageAnalysis.trend === 'increasing')
TrendPush(trend) ==
    IF trend = "increasing"
    THEN <<Recommendation("usage", "medium", "Usage Trend Alert", Undefined)>> ELSE <<>>

\* if (regionalContext.precipitation < 1)
RegionalPush(precipitation) ==
    IF JsLt(precipitation, Num(1))
    THEN <<Recommendation("regional", "high", "Low Rainfall in Your Area", Undefined)>> ELSE <<>>

\* the comparison with >= in place of >
CostPushInclusive(averageCostPerLiter) ==
    IF ~JsLt(averageCostPerLiter, Rat(1, 100))
    THEN <<Recommendation("bill", "medium", "Reduce Water Costs",
               JsMul(averageCostPerLiter, Num(1000)))>>
    ELSE <<>>

\* if (billsAnalysis.averageCostPerLiter > 0.01)
CostPush(averageCostPerLiter) ==
    IF JsGt(averageCostPerLiter, Rat(1, 100))
    THEN <<Recommendation("bill", "medium", "Reduce Water Costs",
               JsMul(averageCostPerLiter, Num(1000)))>>
    ELSE <<>>

\* the usage recommendation pushed only when the average is above the recommended usage
ComposeWithoutElse(avgDailyUsage, trend, precipitation, averageCostPerLiter) ==
    (IF JsGt(avgDailyUsage, Num(RECOMMENDED_DAILY_USAGE)) THEN UsagePush(avgDailyUsage) ELSE <<>>)
        \o TrendPush(trend) \o RegionalPush(precipitation) \o CostPush(averageCostPerLiter)

\* the body of the try block, after its three awaits
Compose(avgDailyUsage, trend, precipitation, averageCostPerLiter) ==
    UsagePush(avgDailyUsage) \o TrendPush(trend) \o RegionalPush(precipitation)
        \o CostPush(averageCostPerLiter)

StartTracking == Recommendation("usage", "low", "Start Tracking", Undefined)


-----------------------------------------------------------------------------
(* The calls in flight.  A call issues its reads when it starts; each read  *)
(* is answered later, and the code that awaits it runs with the answer.    *)

ReadNames == {"own.usage", "own.bills", "pat.usage", "trend.usage", "trend.bills", "opp.usage"}

NoRead   == [st |-> "none", rows |-> <<>>]
NoReads  == [r \in ReadNames |-> NoRead]
NoRegional == [temperature |-> Num(0), humidity |-> Num(0), precipitation |-> Num(0),
               recommendation |-> ""]
NoAdv    == [pc |-> 0, failed |-> 0, todayUsage |-> Num(0), avgDailyUsage |-> Num(0),
             recentAvg |-> Num(0), olderAvg |-> Num(0), trend |-> "none", bills |-> <<>>,
             totalConsumption |-> Num(0), averageCostPerLiter |-> Num(0),
             weather |-> "none", precipitation |-> Num(0), regional |-> NoRegional]
NoOut    == [op |-> "none", status |-> "none", value |-> <<>>, rd |-> NoReads, adv |-> NoAdv]

UsageReads == ReadNames \ {"own.bills", "trend.bills"}
QueryOf(r) == IF r \in {"own.bills", "trend.bills"} THEN SelectAllBills ELSE SelectAllUsage

\* getAllUsage / getAllBills up to their await: getDatabase() throws when db is null;
\* WebDatabase.getAllAsync reads its table in the call, SQLite when the query runs
IssueRead(r) ==
    IF ~dbOpen THEN [st |-> "failed", rows |-> <<>>]
    ELSE IF platform = "web" THEN [st |-> "pending", rows |-> QueryOf(r)]
    ELSE [st |-> "pending", rows |-> <<>>]

Issue(names) == [r \in ReadNames |-> IF r \in names THEN IssueRead(r) ELSE NoRead]

\* the rows a pending read resolves with
AnswerOf(r) == IF platform = "web" THEN rd[r].rows ELSE QueryOf(r)

Running == [st |-> "running", value |-> <<>>]
Returned(v) == [st |-> "returned", value |-> v]
Raised == [st |-> "raised", value |-> <<>>]

\* analyzeUsagePatterns: catch (error) { return [] }
PatternsCatch == Returned(<<>>)

PatternsBranch(reads) ==
    CASE reads["pat.usage"].st = "ok"     -> Returned(PatternsOf(reads["pat.usage"].rows))
      [] reads["pat.usage"].st = "failed" -> PatternsCatch
      [] OTHER -> Running

\* a catch that throws the error on
TrendsCatchRethrow == Raised

\* calculateMonthlyTrends: catch (error) { return [] }
TrendsCatch == Returned(<<>>)

\* const [usage, bills] = await Promise.all([getAllUsage(), getAllBills()])
TrendsBranch(reads) ==
    CASE reads["trend.usage"].st = "failed" \/ reads["trend.bills"].st = "failed" -> TrendsCatch
      [] reads["trend.usage"].st = "ok" /\ reads["trend.bills"].st = "ok" ->
            Returned(TrendsOf(reads["trend.usage"].rows, reads["trend.bills"].rows,
                              monthsArg))
      [] OTHER -> Running

\* identifySavingsOpportunities: catch (error) { return [] }
OpportunitiesCatch == Returned([list |-> <<>>, divisors |-> <<>>])

OpportunitiesBranch(reads) ==
    CASE reads["opp.usage"].st = "ok"     -> Returned(OpportunitiesOf(reads["opp.usage"].rows))
      [] reads["opp.usage"].st = "failed" -> OpportunitiesCatch
      [] OTHER -> Running

\* a catch that returns the report of an empty store
ReportCatchZeroed ==
    Returned([summary |-> Summary(Num(0), Num(0), 0), patterns |-> <<>>, trends |-> <<>>,
              opportunities |-> <<>>])

\* generateUsageReport: catch (error) { throw error }
ReportCatch == Raised

\* await Promise.all([getAllUsage(), getAllBills(), analyzeUsagePatterns(),
\*                    calculateMonthlyTrends(), identifySavingsOpportunities()])
ReportJoin(reads, p, t, o) ==
    CASE reads["own.usage"].st = "failed" \/ reads["own.bills"].st = "failed"
         \/ "raised" \in {p.st, t.st, o.st} -> ReportCatch
      [] reads["own.usage"].st = "ok" /\ reads["own.bills"].st = "ok"
         /\ {p.st, t.st, o.st} = {"returned"} ->
            Returned([summary |-> SummaryOf(reads["own.usage"].rows, reads["own.bills"].rows),
                      patterns |-> p.value, trends |-> t.value, opportunities |-> o.value.list])
      [] OTHER -> Running

ReportCall(reads) ==
    ReportJoin(reads, PatternsBranch(reads), TrendsBranch(reads), OpportunitiesBranch(reads))

CallState(o, reads) ==
    CASE o = "patterns"      -> PatternsBranch(reads)
      [] o = "trends"        -> TrendsBranch(reads)
      [] o = "opportunities" -> OpportunitiesBranch(reads)
      [] o = "report"        -> ReportCall(reads)

\* the reads answered so far are `reads`: the call settles, or goes on waiting
Settle(o, reads, c) ==
    IF c.st = "running"
    THEN /\ op' = o
         /\ rd' = reads
         /\ out' = NoOut
    ELSE /\ op' = "idle"
         /\ rd' = NoReads
         /\ out' = [op |-> o, status |-> c.st, value |-> c.value, rd |-> reads, adv |-> NoAdv]

Advance(o, reads) == Settle(o, reads, CallState(o, reads))

ReadsOf(o) ==
    CASE o = "patterns"      -> {"pat.usage"}
      [] o = "trends"        -> {"trend.usage", "trend.bills"}
      [] o = "opportunities" -> {"opp.usage"}
      [] o = "report"        -> ReadNames

\* the call of o, a calculateMonthlyTrends call with the argument n
StartWith(o, n) ==
    /\ op = "idle"
    /\ out.op = "none"
    /\ monthsArg' = n
    /\ Advance(o, Issue(ReadsOf(o)))
    /\ UNCHANGED <<sideVars, lastInit, kept, platform, initPromise, tz, today, dbOpen, usage, bills, nextId, adv>>

\* the calls the application makes: calculateMonthlyTrends() takes its default
Start(o) == StartWith(o, DefaultMonths)

StartPatterns == Start("patterns")
StartTrends == Start("trends")
StartOpportunities == Start("opportunities")
StartReport == Start("report")

\* calculateMonthlyTrends(n)
StartTrendsOver(n) == StartWith("trends", n)

\* db.getAllAsync resolves with the rows the table holds
ReadOk(r) ==
    /\ op # "idle"
    /\ rd[r].st = "pending"
    /\ dbOpen
    /\ Advance(op, [rd EXCEPT ![r] = [st |-> "ok", rows |-> AnswerOf(r)]])
    /\ usage' = (IF r \in UsageReads THEN TableAfterSelect(usage) ELSE usage)
    /\ bills' = (IF r \in UsageReads THEN bills ELSE TableAfterSelect(bills))
    /\ UNCHANGED <<sideVars, lastInit, kept, monthsArg, platform, initPromise, tz, today, dbOpen, nextId, adv>>

\* db.getAllAsync rejects
ReadFail(r) ==
    /\ op # "idle"
    /\ rd[r].st = "pending"
    /\ Advance(op, [rd EXCEPT ![r] = [st |-> "failed", rows |-> <<>>]])
    /\ UNCHANGED <<sideVars, lastInit, kept, monthsArg, platform, initPromise, tz, today, dbOpen, usage, bills, nextId, adv>>

\* the caller's await resumes with a returned value and the caller holds on to it:
\* const data = await generateUsageReport(); setReport(data)
KeepResult ==
    /\ out.op # "none"
    /\ out.status = "returned"
    /\ kept' = out
    /\ out' = NoOut
    /\ UNCHANGED <<sideVars, lastInit, monthsArg, platform, initPromise, tz, today, dbOpen, usage, bills, nextId, op, rd,
                   adv>>

\* the caller's await resumes with the settled promise, in the task that settled it
TakeResult ==
    /\ out.op # "none"
    /\ out' = NoOut
    /\ UNCHANGED <<sideVars, lastInit, kept, monthsArg, platform, initPromise, tz, today, dbOpen, usage, bills, nextId, op, rd, adv>>


-----------------------------------------------------------------------------
(* generateRecommendations: its awaits, one after the other.               *)
(* adv.pc is the await it is at: 1 getTotalUsageByDate(today),             *)
(* 2 getAverageDailyUsage(30), 3 getAverageDailyUsage(7),                  *)
(* 4 getAverageDailyUsage(30), 5 getAllBills, 6 getTotalConsumption,       *)
(* 7 getRegionalWaterContext.                                              *)

LastRead == 6

\* the usage recommendation pushed as soon as getUserUsageAnalysis has resolved
PushedAfterUsageAnalysis(a) == IF a.pc > 4 THEN UsagePush(a.avgDailyUsage) ELSE <<>>

\* what the try block has pushed when the await at a.pc throws: every push follows
\* the three awaits
PushedBefore(a) == <<>>

\* a catch that pushes nothing
AdvisorCatchSilent(recommendations) == Returned(recommendations)

\* generateRecommendations: catch (error) { recommendations.push({... 'Start Tracking' ...}) }
AdvisorCatch(recommendations) == Returned(Append(recommendations, StartTracking))

\* the call settles with c; a is what it had read
AdvisorSettle(c, a) ==
    /\ op' = "idle"
    /\ adv' = NoAdv
    /\ out' = [op |-> "recommendations", status |-> c.st, value |-> c.value,
               rd |-> NoReads, adv |-> a]

\* the next await is a database read: getDatabase() throws when db is null
AdvisorGoOn(a) ==
    IF a.pc <= LastRead /\ ~dbOpen
    THEN AdvisorSettle(AdvisorCatch(PushedBefore(a)), [a EXCEPT !.failed = a.pc])
    ELSE /\ op' = "recommendations"
         /\ adv' = a
         /\ out' = NoOut

StartRecommendations ==
    /\ op = "idle"
    /\ out.op = "none"
    /\ AdvisorGoOn([NoAdv EXCEPT !.pc = 1])
    /\ UNCHANGED <<sideVars, lastInit, kept, monthsArg, platform, initPromise, tz, today, dbOpen, usage, bills, nextId, rd>>

\* what the await at adv.pc resolves with
AdvisorRead(a) ==
    CASE a.pc = 1 -> [a EXCEPT !.todayUsage = TotalUsageByDate(today)]
      [] a.pc = 2 -> [a EXCEPT !.avgDailyUsage = AverageDailyUsage(30)]
      [] a.pc = 3 -> [a EXCEPT !.recentAvg = AverageDailyUsage(7)]
      [] a.pc = 4 -> [a EXCEPT !.olderAvg = AverageDailyUsage(30),
                               !.trend = Trend(a.recentAvg, AverageDailyUsage(30))]
      [] a.pc = 5 -> [a EXCEPT !.bills = SelectAllBills]
      [] a.pc = 6 -> [a EXCEPT !.totalConsumption = TotalConsumption,
                               !.averageCostPerLiter =
                                   AverageCostPerLiter(a.bills, TotalConsumption)]

\* a read of getUserUsageAnalysis or getBillsAnalysis resolves
AdvisorAnswer ==
    /\ op = "recommendations"
    /\ adv.pc \in 1..LastRead
    /\ dbOpen
    /\ AdvisorGoOn([AdvisorRead(adv) EXCEPT !.pc = adv.pc + 1])
    /\ UNCHANGED <<sideVars, lastInit, kept, monthsArg, platform, initPromise, tz, today, dbOpen, usage, bills, nextId, rd>>

\* a read of getUserUsageAnalysis or getBillsAnalysis rejects
AdvisorFail ==
    /\ op = "recommendations"
    /\ adv.pc \in 1..LastRead
    /\ AdvisorSettle(AdvisorCatch(PushedBefore(adv)), [adv EXCEPT !.failed = adv.pc])
    /\ UNCHANGED <<sideVars, lastInit, kept, monthsArg, platform, initPromise, tz, today, dbOpen, usage, bills, nextId, rd>>

\* getRegionalWaterContext: the text chosen from the reading
RegionalText(w) ==
    IF JsLt(w.precipitation, Num(1)) /\ JsLt(w.humidity, Num(40))
    THEN "Low rainfall and humidity detected. Consider reducing outdoor water usage."
    ELSE IF JsGt(w.precipitation, Num(10))
    THEN "Good rainfall! Perfect time to collect rainwater for later use."
    ELSE IF JsGt(w.temperature, Num(30))
    THEN "High temperatures increase water evaporation. Water plants early morning or late evening."
    ELSE "Weather conditions are normal. Maintain regular water conservation practices."

\* getRegionalWaterContext: the reading with its text, or what its catch returns
RegionalWaterContext(w) ==
    IF w.ok
    THEN [temperature |-> w.temperature, humidity |-> w.humidity,
          precipitation |-> w.precipitation, recommendation |-> RegionalText(w)]
    ELSE [temperature |-> Num(0), humidity |-> Num(0), precipitation |-> Num(0),
          recommendation |-> "Unable to fetch regional weather data."]

\* getRegionalWaterContext: catch (error) { return { ..., precipitation: 0, ... } }
RegionalPrecipitation(w) == RegionalWaterContext(w).precipitation

\* what getRegionalWaterContext resolved with, w being what the weather source did
AdvisorRegional(a, w) ==
    [a EXCEPT !.precipitation = RegionalPrecipitation(w),
              !.regional = RegionalWaterContext(w),
              !.weather = IF w.ok THEN "ok" ELSE "failed"]

\* a failure of the weather source taken to the catch block of generateRecommendations
AdvisorResultSurfacing(a) ==
    IF a.weather = "failed" THEN AdvisorCatch(PushedBefore(a))
    ELSE Returned(Compose(a.avgDailyUsage, a.trend, a.precipitation, a.averageCostPerLiter))

AdvisorResult(a) ==
    Returned(Compose(a.avgDailyUsage, a.trend, a.precipitation, a.averageCostPerLiter))

\* getRegionalWaterContext resolves, and the try block runs to its end; getCurrentWeather
\* looks in the cache first, and getCache's getDatabase() throws when db is null
AdvisorWeather(w) ==
    /\ op = "recommendations"
    /\ adv.pc = LastRead + 1
    /\ w.ok => dbOpen
    /\ AdvisorSettle(AdvisorResult(AdvisorRegional(adv, w)), AdvisorRegional(adv, w))
    /\ UNCHANGED <<sideVars, lastInit, kept, monthsArg, platform, initPromise, tz, today, dbOpen, usage, bills, nextId, rd>>


-----------------------------------------------------------------------------
(* The store's writers *)

MaxUsage == 2
MaxBills == 1
MaxId == 3

Day(y, m, d) == [y |-> y, m |-> m, d |-> d]

\* the id of an inserted usage row: AUTOINCREMENT, and usage.length + 1 in WebDatabase
NewUsageId == IF platform = "web" THEN Len(usage) + 1 ELSE nextId

\* addUsage: INSERT INTO usage (...)
addUsage(liters, date) ==
    /\ out.op = "none"
    /\ dbOpen
    /\ Len(usage) < MaxUsage
    /\ nextId <= MaxId
    /\ usage' = Append(usage, [id |-> NewUsageId, liters |-> liters, date |-> date])
    /\ nextId' = nextId + 1
    /\ UNCHANGED <<sideVars, lastInit, kept, monthsArg, platform, initPromise, tz, today, dbOpen, bills, op, rd, adv, out>>

\* deleteUsage: DELETE FROM usage WHERE id = ?
deleteUsage(id) ==
    /\ out.op = "none"
    /\ dbOpen
    /\ usage' = SelectSeq(usage, LAMBDA u : u.id # id)
    /\ UNCHANGED <<sideVars, lastInit, kept, monthsArg, platform, initPromise, tz, today, dbOpen, bills, nextId, op, rd, adv, out>>

\* addBill: INSERT INTO bills (...); id is the table's primary key, which WebDatabase
\* does not enforce
addBill(id, amount, date, consumptionLiters) ==
    /\ out.op = "none"
    /\ dbOpen
    /\ Len(bills) < MaxBills
    /\ platform = "web" \/ \A i \in 1..Len(bills) : bills[i].id # id
    /\ bills' = Append(bills, [id |-> id, amount |-> amount, date |-> date,
                               consumptionLiters |-> consumptionLiters])
    /\ UNCHANGED <<sideVars, lastInit, kept, monthsArg, platform, initPromise, tz, today, dbOpen, usage, nextId, op, rd, adv, out>>

\* deleteBill: DELETE FROM bills WHERE id = ?
deleteBill(id) ==
    /\ out.op = "none"
    /\ dbOpen
    /\ bills' = SelectSeq(bills, LAMBDA b : b.id # id)
    /\ UNCHANGED <<sideVars, lastInit, kept, monthsArg, platform, initPromise, tz, today, dbOpen, usage, nextId, op, rd, adv, out>>

\* initDatabase, resolving: if (db) return db; if (initPromise) return initPromise;
\* otherwise the database is opened, db = database, and on native initPromise stays set
initDatabase ==
    /\ out.op = "none"
    /\ IF dbOpen \/ initPromise
       THEN UNCHANGED <<dbOpen, initPromise>>
       ELSE /\ dbOpen' = TRUE
            /\ initPromise' = (platform # "web")
    /\ lastInit' = "resolved"
    /\ UNCHANGED <<sideVars, kept, monthsArg, platform, tz, today, usage, bills, nextId, op, rd, adv, out>>

\* initDatabase, rejecting: openDatabaseAsync or execAsync fails on native, and
\* catch (error) { initPromise = null; throw error }
initDatabaseRejects ==
    /\ out.op = "none"
    /\ platform # "web"
    /\ ~dbOpen
    /\ ~initPromise
    /\ initPromise' = FALSE
    /\ lastInit' = "rejected"
    /\ UNCHANGED <<sideVars, kept, monthsArg, platform, tz, today, dbOpen, usage, bills, nextId, op, rd, adv, out>>

\* closeDatabase: if (db && Platform.OS !== 'web') { await db.closeAsync(); db = null }
closeDatabase ==
    /\ out.op = "none"
    /\ IF dbOpen /\ platform # "web" THEN dbOpen' = FALSE ELSE UNCHANGED dbOpen
    /\ lastInit' = "none"
    /\ UNCHANGED <<sideVars, kept, monthsArg, platform, initPromise, tz, today, usage, bills, nextId, op, rd, adv, out>>

-----------------------------------------------------------------------------
(* The daily reminder (services/notifications) and the cache table          *)
(* (services/db/cache.ts): what they start from                             *)

\* DEFAULT_SETTINGS, of which shouldShowDailyReminder reads enabled and dailyReminder
DEFAULT_SETTINGS == [enabled |-> TRUE, dailyReminder |-> TRUE]

\* the calls of shouldShowDailyReminder that may be in flight together
Callers == 1..2

NotCalled == [pc |-> "idle", enabled |-> FALSE, today |-> <<>>, result |-> FALSE]

CacheKeys == {"weather", "climate"}

SideInit ==
    /\ file = [version |-> <<>>, bills |-> <<>>, usage |-> <<>>]
    /\ settings = DEFAULT_SETTINGS
    /\ lastReminder = <<>>
    /\ reminder = [c \in Callers |-> NotCalled]
    /\ shownToday = 0
    /\ cache = [k \in CacheKeys |-> <<>>]
    /\ clock = 0

-----------------------------------------------------------------------------
(* Specifications *)

\* UTC offsets of the device, in hours: west of, at and east of Greenwich
TimeZones == {-5, 0, 3}

\* the time zone of the runs in which the store is written while the calls are made
StoreZones == {0}

StoreLiters == {200}
StoreDates == {Day(2024, 1, 1), Day(2024, 2, 1)}
StoreBillIds == {"BILL-1"}

Now == Day(2024, 3, 15)

Platforms == {"native", "web"}

Init ==
    /\ platform \in Platforms
    /\ initPromise = FALSE
    /\ tz \in StoreZones
    /\ today = Now
    /\ dbOpen = FALSE
    /\ usage = <<>>
    /\ bills = <<>>
    /\ nextId = 1
    /\ op = "idle"
    /\ rd = NoReads
    /\ adv = NoAdv
    /\ out = NoOut
    /\ kept = NoOut
    /\ monthsArg = DefaultMonths
    /\ lastInit = "none"
    /\ SideInit

Writers ==
    \/ initDatabase
    \/ initDatabaseRejects
    \/ closeDatabase
    \/ \E l \in StoreLiters, d \in StoreDates : addUsage(l, d)
    \/ \E i \in 1..MaxId : deleteUsage(i)
    \/ \E b \in StoreBillIds, d \in StoreDates : addBill(b, 30, d, 1500)
    \/ \E b \in StoreBillIds : deleteBill(b)

Answers ==
    \/ \E r \in ReadNames : ReadOk(r)
    \/ \E r \in ReadNames : ReadFail(r)
    \/ TakeResult

\* the three analyses called on their own, while the store is written
Next ==
    \/ Writers
    \/ StartPatterns
    \/ StartTrends
    \/ StartOpportunities
    \/ Answers

Spec == Init /\ [][Next]_vars

\* generateUsageReport, while the store is written
ReportDates == {Day(2024, 1, 1)}

ReportWriters ==
    \/ initDatabase
    \/ closeDatabase
    \/ \E l \in StoreLiters, d \in ReportDates : addUsage(l, d)
    \/ \E b \in StoreBillIds, d \in ReportDates : addBill(b, 30, d, 1500)

NextReport == ReportWriters \/ StartReport \/ Answers

SpecReport == Init /\ [][NextReport]_vars

\* rows i of `ledger` with i in S, in order, as a table's rows
RECURSIVE Pick(_, _, _, _)
Pick(ledger, S, i, acc) ==
    IF i > Len(ledger) THEN acc
    ELSE IF i \in S THEN Pick(ledger, S, i + 1, Append(acc, ledger[i]))
    ELSE Pick(ledger, S, i + 1, acc)

UsageTable(ledger, S) ==
    LET rows == Pick(ledger, S, 1, <<>>)
    IN  [i \in 1..Len(rows) |-> [id |-> i, liters |-> rows[i][1], date |-> rows[i][2]]]

BillTable(ledger, S) ==
    LET rows == Pick(ledger, S, 1, <<>>)
    IN  [i \in 1..Len(rows) |-> [id |-> rows[i][1], amount |-> rows[i][2], date |-> rows[i][3],
                                 consumptionLiters |-> rows[i][4]]]

\* an initialised database on one of `platforms`, holding rows of the two ledgers
InitOn(platforms, usageLedger, usageLen, billLedger, billLen) ==
    /\ platform \in platforms
    /\ initPromise = (platform # "web")
    /\ tz \in TimeZones
    /\ today = Now
    /\ dbOpen = TRUE
    /\ \E S \in SUBSET (1..usageLen) : usage = UsageTable(usageLedger, S)
    /\ \E S \in SUBSET (1..billLen) : bills = BillTable(billLedger, S)
    /\ nextId = Len(usage) + 1
    /\ op = "idle"
    /\ rd = NoReads
    /\ adv = NoAdv
    /\ out = NoOut
    /\ kept = NoOut
    /\ monthsArg = DefaultMonths
    /\ lastInit = "none"
    /\ SideInit

InitWith(usageLedger, usageLen, billLedger, billLen) ==
    InitOn({"native"}, usageLedger, usageLen, billLedger, billLen)

\* analyzeUsagePatterns over every table drawn from PatternLedger
PatternLedgerLen == 5
PatternLedger ==
    << <<100, Day(2024, 1, 1)>>, <<200, Day(2024, 1, 8)>>, <<50, Day(2023, 12, 31)>>,
       <<70, Day(2024, 1, 6)>>, <<200, Day(2024, 1, 1)>>, <<30, Day(2024, 1, 3)>>,
       <<10, Day(2024, 1, 7)>> >>

InitPatterns == InitWith(PatternLedger, PatternLedgerLen, <<>>, 0)
NextPatterns == StartPatterns \/ Answers
SpecPatterns == InitPatterns /\ [][NextPatterns]_vars

\* calculateMonthlyTrends over every pair of tables drawn from the two ledgers
TrendLedgerLen == 9
TrendLedger ==
    << <<100, Day(2023, 8, 15)>>, <<200, Day(2023, 9, 10)>>, <<150, Day(2023, 10, 1)>>,
       <<105, Day(2023, 11, 5)>>, <<120, Day(2023, 12, 31)>>, <<145, Day(2024, 1, 1)>>,
       <<200, Day(2024, 1, 1)>>, <<100, Day(2024, 1, 8)>>, <<450, Day(2024, 2, 1)>>,
       <<60, Day(2024, 3, 20)>>, <<80, Day(2024, 4, 2)>> >>
TrendBillLen == 2
TrendBills ==
    << <<"BILL-1", 30, Day(2024, 1, 15), 1500>>, <<"BILL-2", 45, Day(2023, 7, 20), 3000>>,
       <<"BILL-3", 20, Day(2024, 2, 1), 1000>>, <<"BILL-4", 25, Day(2023, 6, 1), 900>> >>

InitTrends == InitWith(TrendLedger, TrendLedgerLen, TrendBills, TrendBillLen)
NextTrends == StartTrends \/ Answers
SpecTrends == InitTrends /\ [][NextTrends]_vars

\* identifySavingsOpportunities over every table drawn from OpportunityLedger
OpportunityLedgerLen == 6
OpportunityLedger ==
    << <<200, Day(2024, 1, 1)>>, <<100, Day(2024, 1, 2)>>, <<105, Day(2024, 1, 3)>>,
       <<120, Day(2024, 1, 1)>>, <<100, Day(2024, 1, 2)>>, <<450, Day(2024, 1, 3)>>,
       <<0, Day(2024, 1, 4)>>, <<150, Day(2024, 1, 5)>> >>

InitOpportunities == InitWith(OpportunityLedger, OpportunityLedgerLen, <<>>, 0)
NextOpportunities == StartOpportunities \/ Answers
SpecOpportunities == InitOpportunities /\ [][NextOpportunities]_vars


\* generateRecommendations over every pair of tables drawn from the two ledgers
AdvisorLedgerLen == 4
AdvisorLedger ==
    << <<250, Day(2024, 3, 12)>>, <<50, Day(2024, 3, 1)>>, <<100, Day(2024, 3, 10)>>,
       <<400, Day(2024, 1, 10)>>, <<150, Day(2024, 2, 14)>>, <<100, Day(2024, 3, 8)>> >>
AdvisorBillLen == 3
AdvisorBills ==
    << <<"BILL-1", 30, Day(2024, 2, 20), 1500>>, <<"BILL-2", 10, Day(2024, 1, 20), 2500>>,
       <<"BILL-3", 12, Day(2024, 3, 5), 0>>, <<"BILL-4", 5, Day(2024, 3, 1), 1000>> >>

\* current precipitation in mm, or the weather source failing
WeatherAnswers ==
    {[ok |-> TRUE, temperature |-> t, humidity |-> h, precipitation |-> p] :
        t \in {Num(20), Num(35)}, h \in {Num(30), Num(60)},
        p \in {Num(0), Rat(1, 2), Num(1), Num(12)}}
        \cup {[ok |-> FALSE, temperature |-> NaN, humidity |-> NaN, precipitation |-> NaN]}

InitAdvisor == InitOn(Platforms, AdvisorLedger, AdvisorLedgerLen, AdvisorBills, AdvisorBillLen)
NextAdvisor ==
    \/ initDatabase
    \/ closeDatabase
    \/ StartRecommendations
    \/ AdvisorAnswer
    \/ AdvisorFail
    \/ \E w \in WeatherAnswers : AdvisorWeather(w)
    \/ TakeResult
SpecAdvisor == InitAdvisor /\ [][NextAdvisor]_vars


\* generateUsageReport over every pair of tables drawn from the two ledgers, the store
\* left alone while the call runs and every read answered
ReportLedgerLen == 3
ReportLedger ==
    << <<200, Day(2024, 1, 1)>>, <<100, Day(2024, 1, 2)>>, <<120, Day(2024, 1, 1)>>,
       <<50, Day(2024, 2, 3)>> >>
ReportBillLen == 2
ReportBills ==
    << <<"BILL-1", 30, Day(2024, 1, 15), 1500>>, <<"BILL-2", 45, Day(2023, 12, 20), 3000>>,
       <<"BILL-3", 20, Day(2024, 2, 1), 1000>> >>

InitFacade == InitOn(Platforms, ReportLedger, ReportLedgerLen, ReportBills, ReportBillLen)
NextFacade ==
    \/ StartReport
    \/ \E r \in ReadNames : ReadOk(r)
    \/ TakeResult
SpecFacade == InitFacade /\ [][NextFacade]_vars

\* the five calls made again and again on a store nobody writes, every read answered;
\* the weather source answers each call as it likes
TwiceLedgerLen == 2
TwiceLedger ==
    << <<100, Day(2024, 3, 1)>>, <<200, Day(2024, 3, 10)>>, <<120, Day(2024, 2, 12)>> >>
TwiceBillLen == 1
TwiceBills ==
    << <<"BILL-1", 30, Day(2024, 2, 20), 1500>>, <<"BILL-2", 10, Day(2024, 1, 20), 2500>> >>
TwiceWeather ==
    {[ok |-> TRUE, temperature |-> Num(20), humidity |-> Num(60), precipitation |-> p] :
        p \in {Num(0), Num(12)}}
        \cup {[ok |-> FALSE, temperature |-> NaN, humidity |-> NaN, precipitation |-> NaN]}

InitTwice == InitOn(Platforms, TwiceLedger, TwiceLedgerLen, TwiceBills, TwiceBillLen)
NextTwice ==
    \/ StartPatterns
    \/ StartTrends
    \/ StartOpportunities
    \/ StartReport
    \/ StartRecommendations
    \/ \E r \in ReadNames : ReadOk(r)
    \/ AdvisorAnswer
    \/ \E w \in TwiceWeather : AdvisorWeather(w)
    \/ KeepResult
SpecTwice == InitTwice /\ [][NextTwice]_vars

\* calculateMonthlyTrends(n) for every window n up to MaxWindow
MaxWindow == 3
WindowLedgerLen == 3
WindowBillLen == 1
WindowLedger ==
    << <<200, Day(2024, 1, 1)>>, <<100, Day(2024, 2, 15)>>, <<120, Day(2023, 12, 31)>>,
       <<50, Day(2024, 3, 2)>> >>
WindowBills ==
    << <<"BILL-1", 30, Day(2023, 11, 20), 1500>>, <<"BILL-2", 10, Day(2024, 1, 20), 2500>> >>

InitWindow == InitOn({"native"}, WindowLedger, WindowLedgerLen, WindowBills, WindowBillLen)
NextWindow ==
    \/ \E n \in 0..MaxWindow : StartTrendsOver(n)
    \/ Answers
SpecWindow == InitWindow /\ [][NextWindow]_vars

-----------------------------------------------------------------------------
(* Records entered on the screens, exported and imported.  In these rows a  *)
(* number is a JavaScript number <<n, d>> and a text a sequence of code     *)
(* units; <<>> stands for null, undefined and the empty string alike,       *)
(* which `x || null` does not tell apart.                                   *)

Null == <<>>

JsLe(a, b) == a # NaN /\ b # NaN /\ a[1] * b[2] <= b[1] * a[2]

\* String.prototype.trim, of blanks
RECURSIVE TrimStart(_)
TrimStart(s) == IF s # <<>> /\ s[1] = 32 THEN TrimStart(Tail(s)) ELSE s

RECURSIVE TrimEnd(_)
TrimEnd(s) == IF s # <<>> /\ s[Len(s)] = 32 THEN TrimEnd(SubSeq(s, 1, Len(s) - 1)) ELSE s

Trim(s) == TrimEnd(TrimStart(s))

RECURSIVE DigitsAtHead(_)
DigitsAtHead(s) ==
    IF s # <<>> /\ s[1] >= 48 /\ s[1] <= 57 THEN <<s[1]>> \o DigitsAtHead(Tail(s)) ELSE <<>>

RECURSIVE DigitsValue(_, _)
DigitsValue(ds, acc) ==
    IF ds = <<>> THEN acc ELSE DigitsValue(Tail(ds), 10 * acc + (ds[1] - 48))

RECURSIVE Pow10(_)
Pow10(k) == IF k = 0 THEN 1 ELSE 10 * Pow10(k - 1)

\* the StrUnsignedDecimalLiteral at the head of s: digits, then "." and digits
ParseUnsigned(s) ==
    LET int  == DigitsAtHead(s)
        tail == SubSeq(s, Len(int) + 1, Len(s))
        frac == IF tail # <<>> /\ tail[1] = 46 THEN DigitsAtHead(Tail(tail)) ELSE <<>>
    IN  IF int = <<>> /\ frac = <<>> THEN NaN
        ELSE Rat(DigitsValue(int \o frac, 0), Pow10(Len(frac)))

\* parseFloat: leading blanks are skipped, a sign is read, then the longest decimal
\* literal; what follows it is ignored, and without a digit the result is NaN
\* (exponents and "Infinity" are not among the texts entered here)
ParseFloat(text) ==
    LET s == TrimStart(text)
    IN  IF s # <<>> /\ s[1] = 45 THEN JsMul(Num(-1), ParseUnsigned(Tail(s)))
        ELSE IF s # <<>> /\ s[1] = 43 THEN ParseUnsigned(Tail(s))
        ELSE ParseUnsigned(s)

\* 'USD'
USD == <<85, 83, 68>>

\* `BILL-${Date.now()}`
GeneratedBillId(now) == <<66, 73, 76, 76, 45>> \o NumToString(now)

\* bills.ts addBill: billId = bill.id || `BILL-${Date.now()}`,
\* currency = bill.currency || 'USD'
BillParams(bill, now) ==
    [id |-> IF bill.id # Null THEN bill.id ELSE GeneratedBillId(now),
     amount |-> bill.amount, date |-> bill.date,
     consumptionLiters |-> bill.consumptionLiters,
     currency |-> IF bill.currency # Null THEN bill.currency ELSE USD]

\* runAsync('INSERT INTO bills (id, amount, date, consumptionLiters, currency) ...'):
\* WebDatabase pushes { id, amount, date, consumptionLiters } and never fails; SQLite
\* enforces PRIMARY KEY and NOT NULL.  getDatabase() throws when db is null.
InsertBill(table, p) ==
    IF ~dbOpen THEN [ok |-> FALSE, table |-> table]
    ELSE IF platform = "web"
    THEN [ok |-> TRUE, table |-> Append(table, [p EXCEPT !.currency = Null])]
    ELSE IF \/ p.amount = Null
            \/ p.consumptionLiters = Null
            \/ \E i \in 1..Len(table) : table[i].id = p.id
    THEN [ok |-> FALSE, table |-> table]
    ELSE [ok |-> TRUE, table |-> Append(table, p)]

\* usage.ts addUsage: [usage.liters, usage.date, usage.time || null,
\* usage.category || null, usage.location || null, usage.description || null]
UsageParams(u) ==
    [liters |-> u.liters, date |-> u.date, time |-> u.time, category |-> u.category,
     location |-> u.location, description |-> u.description]

\* runAsync('INSERT INTO usage (liters, date, time, category, location, description) ...'):
\* WebDatabase pushes { id: usage.length + 1, liters: params[0], date: params[1],
\* description: params[2] }; SQLite assigns the next AUTOINCREMENT id and enforces
\* NOT NULL
InsertUsage(table, next, p) ==
    IF ~dbOpen THEN [ok |-> FALSE, table |-> table, next |-> next]
    ELSE IF platform = "web"
    THEN [ok |-> TRUE, next |-> next + 1,
          table |-> Append(table, [id |-> Len(table) + 1, liters |-> p.liters, date |-> p.date,
                                   time |-> Null, category |-> Null, location |-> Null,
                                   description |-> p.time])]
    ELSE IF p.liters = Null
    THEN [ok |-> FALSE, table |-> table, next |-> next]
    ELSE [ok |-> TRUE, next |-> next + 1,
          table |-> Append(table, [id |-> next, liters |-> p.liters, date |-> p.date,
                                   time |-> p.time, category |-> p.category,
                                   location |-> p.location, description |-> p.description])]

\* what a screen handler or the import leaves for its caller
Done(o, status, value) == [NoOut EXCEPT !.op = o, !.status = status, !.value = value]

MaxRecords == 2
MaxRecordId == 4

\* UsageScreen.handleAddUsage: the form's texts and its date picker
handleAddUsage(newLiters, newDate, form) ==
    /\ out.op = "none"
    /\ LET liters == ParseFloat(newLiters)
           r == InsertUsage(usage, nextId,
                            UsageParams([liters |-> liters, date |-> newDate,
                                         time |-> Trim(form.time),
                                         category |-> Trim(form.category),
                                         location |-> Trim(form.location),
                                         description |-> Trim(form.description)]))
       IN  IF liters = NaN \/ JsLe(liters, Num(0))
           THEN /\ out' = Done("handleAddUsage", "rejected", <<>>)
                /\ UNCHANGED <<usage, nextId>>
           ELSE /\ Len(usage) < MaxRecords
                /\ nextId <= MaxRecordId
                /\ usage' = r.table
                /\ nextId' = r.next
                /\ out' = Done("handleAddUsage", IF r.ok THEN "saved" ELSE "failed", <<>>)
    /\ UNCHANGED <<sideVars, lastInit, kept, monthsArg, platform, initPromise, tz, today, dbOpen,
                   bills, op, rd, adv>>

\* AddBillScreen.handleSave: the form's texts, its currency selector and its date picker
handleSave(billId, amount, consumptionLiters, currency, date) ==
    /\ out.op = "none"
    /\ LET amountNum == ParseFloat(amount)
           consumptionNum == ParseFloat(consumptionLiters)
           r == InsertBill(bills, BillParams([id |-> Trim(billId), amount |-> amountNum,
                                              date |-> date,
                                              consumptionLiters |-> consumptionNum,
                                              currency |-> currency], 0))
       IN  IF \/ Trim(billId) = <<>>
              \/ amountNum = NaN \/ JsLe(amountNum, Num(0))
              \/ consumptionNum = NaN \/ JsLe(consumptionNum, Num(0))
           THEN /\ out' = Done("handleSave", "rejected", <<>>)
                /\ UNCHANGED bills
           ELSE /\ Len(bills) < MaxRecords
                /\ bills' = r.table
                /\ out' = Done("handleSave", IF r.ok THEN "saved" ELSE "failed", <<>>)
    /\ UNCHANGED <<sideVars, lastInit, kept, monthsArg, platform, initPromise, tz, today, dbOpen,
                   usage, nextId, op, rd, adv>>

\* JSON.stringify writes a number that is not finite as null
JsonNumber(v) == IF v # Null /\ v[2] = 0 THEN Null ELSE v

\* the rows as JSON.stringify writes them and JSON.parse reads them back
JsonUsage(rows) == [i \in 1..Len(rows) |-> [rows[i] EXCEPT !.liters = JsonNumber(@)]]

JsonBills(rows) ==
    [i \in 1..Len(rows) |->
        [rows[i] EXCEPT !.amount = JsonNumber(@), !.consumptionLiters = JsonNumber(@)]]

NoFile == [version |-> Null, bills |-> <<>>, usage |-> <<>>]

\* '1.0'
Version == <<49, 46, 48>>

\* exportToJSON: { version: '1.0', exportDate, bills, usage } of getAllBills() and
\* getAllUsage(), written to the file that is shared or downloaded
exportToJSON ==
    /\ out.op = "none"
    /\ IF dbOpen
       THEN /\ file' = [version |-> Version, bills |-> JsonBills(SelectAllBills),
                        usage |-> JsonUsage(SelectAllUsage)]
            /\ out' = Done("exportToJSON", "returned", <<>>)
       ELSE /\ file' = file
            /\ out' = Done("exportToJSON", "raised", <<>>)
    /\ UNCHANGED <<reminderVars, cacheVars, lastInit, kept, monthsArg, platform, initPromise,
                   tz, today, dbOpen, usage, bills, nextId, op, rd, adv>>

\* for (const bill of data.bills) { try { await addBill({ amount, date,
\* consumptionLiters, billId: bill.billId }); billsImported++ } catch { } }:
\* addBill reads bill.id and bill.currency, which this object does not carry
RECURSIVE ImportBills(_, _, _, _)
ImportBills(rows, i, ticks, acc) ==
    IF i > Len(rows) THEN acc
    ELSE LET r == InsertBill(acc.table,
                             BillParams([id |-> Null, amount |-> rows[i].amount,
                                         date |-> rows[i].date,
                                         consumptionLiters |-> rows[i].consumptionLiters,
                                         currency |-> Null], ticks[i]))
         IN  ImportBills(rows, i + 1, ticks,
                         [table |-> r.table,
                          imported |-> acc.imported + (IF r.ok THEN 1 ELSE 0)])

\* for (const usage of data.usage) { try { await addUsage({ liters, date,
\* description }); usageImported++ } catch { } }
RECURSIVE ImportUsage(_, _, _)
ImportUsage(rows, i, acc) ==
    IF i > Len(rows) THEN acc
    ELSE LET r == InsertUsage(acc.table, acc.next,
                              UsageParams([liters |-> rows[i].liters, date |-> rows[i].date,
                                           time |-> Null, category |-> Null,
                                           location |-> Null,
                                           description |-> rows[i].description]))
         IN  ImportUsage(rows, i + 1,
                         [table |-> r.table, next |-> r.next,
                          imported |-> acc.imported + (IF r.ok THEN 1 ELSE 0)])

\* the values Date.now() takes at the addBill calls of one import: never decreasing
MaxTick == 2
Ticks(n) == {t \in [1..n -> 1..MaxTick] : \A i, j \in 1..n : i < j => t[i] <= t[j]}

\* importFromJSON(jsonString), data being what JSON.parse made of the text
importFromJSON(data, ticks) ==
    /\ out.op = "none"
    /\ IF data.version = Null
       THEN /\ out' = Done("importFromJSON", "raised", <<>>)
            /\ UNCHANGED <<usage, bills, nextId>>
       ELSE LET b == ImportBills(data.bills, 1, ticks, [table |-> bills, imported |-> 0])
                u == ImportUsage(data.usage, 1,
                                 [table |-> usage, next |-> nextId, imported |-> 0])
            IN  /\ Len(bills) + Len(data.bills) <= MaxRecords
                /\ Len(usage) + Len(data.usage) <= MaxRecords
                /\ nextId + Len(data.usage) <= MaxRecordId + 1
                /\ bills' = b.table
                /\ usage' = u.table
                /\ nextId' = u.next
                /\ out' = Done("importFromJSON", "returned",
                               [billsImported |-> b.imported, usageImported |-> u.imported])
    /\ UNCHANGED <<sideVars, lastInit, kept, monthsArg, platform, initPromise, tz, today, dbOpen,
                   op, rd, adv>>

\* what is typed into the usage form: the liters text, and the other fields
UsageEntries ==
    { <<<<50, 48, 48>>, [time |-> <<>>, category |-> <<>>, location |-> <<>>,
                         description |-> <<>>]>>,
      <<<<32, 49, 46, 53>>, [time |-> <<56>>, category |-> <<32>>, location |-> <<76>>,
                             description |-> <<100, 32>>]>>,
      <<<<48>>, [time |-> <<>>, category |-> <<>>, location |-> <<>>, description |-> <<>>]>>,
      <<<<45, 53>>, [time |-> <<>>, category |-> <<>>, location |-> <<>>,
                     description |-> <<>>]>>,
      <<<<97>>, [time |-> <<>>, category |-> <<>>, location |-> <<>>, description |-> <<>>]>> }

EUR == <<69, 85, 82>>

\* what is typed into the add-bill form: id, amount, consumption, and the currency chosen
BillEntries ==
    { <<<<32, 66, 49>>, <<51, 48>>, <<49, 53, 48, 48>>, USD>>,
      <<<<66, 50>>, <<51, 48>>, <<49, 53, 48, 48>>, EUR>>,
      <<<<32>>, <<51, 48>>, <<49, 53, 48, 48>>, USD>>,
      <<<<66, 50>>, <<48>>, <<49, 53, 48, 48>>, USD>>,
      <<<<66, 50>>, <<120>>, <<49, 53, 48, 48>>, USD>>,
      <<<<66, 50>>, <<51, 48>>, <<45, 49>>, USD>> }

FileUsage(liters, date, description) ==
    [id |-> 1, liters |-> liters, date |-> date, time |-> Null, category |-> Null,
     location |-> Null, description |-> description]

FileBill(id, amount, date, consumptionLiters, currency) ==
    [id |-> id, amount |-> amount, date |-> date, consumptionLiters |-> consumptionLiters,
     currency |-> currency]

\* files written by hand: a well-formed one, one whose numbers are not positive, and
\* one without a version
ImportFiles ==
    { [version |-> Version,
       bills |-> <<FileBill(<<66, 57>>, Num(30), Day(2024, 1, 1), Num(1500), USD)>>,
       usage |-> <<FileUsage(Num(200), Day(2024, 1, 1), <<120>>)>>],
      [version |-> Version,
       bills |-> <<FileBill(<<66, 57>>, Num(0), Day(2024, 1, 1), Num(-1), USD)>>,
       usage |-> <<FileUsage(Num(-5), Day(2024, 1, 1), Null)>>],
      [version |-> Null, bills |-> <<>>, usage |-> <<>>] }

\* the screens and the import, on a store that starts empty
InitRecords ==
    /\ InitOn(Platforms, <<>>, 0, <<>>, 0)
    /\ tz = 0

NextRecords ==
    \/ \E e \in UsageEntries : handleAddUsage(e[1], Day(2024, 1, 1), e[2])
    \/ \E e \in BillEntries : handleSave(e[1], e[2], e[3], e[4], Day(2024, 1, 1))
    \/ \E f \in ImportFiles : \E ticks \in Ticks(Len(f.bills)) : importFromJSON(f, ticks)
    \/ TakeResult

SpecRecords == InitRecords /\ [][NextRecords]_vars

\* the records an export starts from, as the screens would have entered them
RoundTripUsageLen == 2
RoundTripUsage ==
    << [liters |-> Num(200), date |-> Day(2024, 1, 1), time |-> <<56>>, category |-> <<99>>,
        location |-> <<76>>, description |-> <<100>>],
       [liters |-> Rat(3, 2), date |-> Day(2024, 2, 1), time |-> Null, category |-> Null,
        location |-> Null, description |-> Null],
       [liters |-> Num(120), date |-> Day(2024, 1, 1), time |-> Null, category |-> Null,
        location |-> Null, description |-> <<100>>] >>

RoundTripBillLen == 2
RoundTripBills ==
    << FileBill(<<66, 49>>, Num(30), Day(2024, 1, 1), Num(1500), EUR),
       FileBill(<<66, 50>>, Num(45), Day(2024, 2, 1), Num(2500), USD),
       FileBill(<<66, 51>>, Num(20), Day(2024, 1, 1), Num(1000), USD) >>

RECURSIVE UsageEntered(_, _, _)
UsageEntered(ledger, S, acc) ==
    IF S = {} THEN acc
    ELSE LET i == CHOOSE k \in S : \A l \in S : k <= l
         IN  UsageEntered(ledger, S \ {i},
                          InsertUsage(acc.table, acc.next, UsageParams(ledger[i])))

RECURSIVE BillsEntered(_, _, _)
BillsEntered(ledger, S, acc) ==
    IF S = {} THEN acc
    ELSE LET i == CHOOSE k \in S : \A l \in S : k <= l
         IN  BillsEntered(ledger, S \ {i}, InsertBill(acc.table, BillParams(ledger[i], 0)))

InitRoundTrip ==
    /\ platform \in Platforms
    /\ initPromise = (platform # "web")
    /\ tz = 0
    /\ today = Now
    /\ dbOpen = TRUE
    /\ \E S \in SUBSET (1..RoundTripUsageLen) :
          LET u == UsageEntered(RoundTripUsage, S, [ok |-> TRUE, table |-> <<>>, next |-> 1])
          IN  usage = u.table /\ nextId = u.next
    /\ \E S \in SUBSET (1..RoundTripBillLen) :
          bills = BillsEntered(RoundTripBills, S, [ok |-> TRUE, table |-> <<>>]).table
    /\ op = "idle"
    /\ rd = NoReads
    /\ adv = NoAdv
    /\ out = NoOut
    /\ kept = NoOut
    /\ monthsArg = DefaultMonths
    /\ lastInit = "none"
    /\ SideInit

StoredBillIds == {bills[i].id : i \in 1..Len(bills)}

\* the exported file imported into the store once it is empty
ImportIntoEmpty ==
    /\ usage = <<>>
    /\ bills = <<>>
    /\ \E ticks \in Ticks(Len(file.bills)) : importFromJSON(file, ticks)

\* an export, the records deleted one by one, and the import of what was exported
NextRoundTrip ==
    \/ exportToJSON
    \/ \E i \in 1..MaxRecordId : deleteUsage(i)
    \/ \E b \in StoredBillIds : deleteBill(b)
    \/ ImportIntoEmpty
    \/ TakeResult

SpecRoundTrip == InitRoundTrip /\ [][NextRoundTrip]_vars

-----------------------------------------------------------------------------
(* shouldShowDailyReminder: its awaits, one after the other, for each call  *)
(* in flight.  AsyncStorage answers every getItem and setItem.              *)

ReminderFrame ==
    UNCHANGED <<file, cacheVars, lastInit, kept, monthsArg, platform, initPromise, tz, today,
                dbOpen, usage, bills, nextId, op, rd, adv, out>>

\* the call: getNotificationSettings() issues its getItem
shouldShowDailyReminder(c) ==
    /\ reminder[c].pc \in {"idle", "done"}
    /\ reminder' = [reminder EXCEPT ![c] = [NotCalled EXCEPT !.pc = "settings"]]
    /\ UNCHANGED <<settings, lastReminder, shownToday>>
    /\ ReminderFrame

\* const settings = await getNotificationSettings();
\* if (!settings.enabled || !settings.dailyReminder) return false;
\* otherwise AsyncStorage.getItem('@waterwise_last_reminder') is issued
ReminderSettings(c) ==
    /\ reminder[c].pc = "settings"
    /\ reminder' = [reminder EXCEPT ![c] =
                       IF ~settings.enabled \/ ~settings.dailyReminder
                       THEN [@ EXCEPT !.pc = "done", !.result = FALSE]
                       ELSE [@ EXCEPT !.pc = "last", !.enabled = TRUE]]
    /\ UNCHANGED <<settings, lastReminder, shownToday>>
    /\ ReminderFrame

\* const lastShown = await AsyncStorage.getItem(...);
\* const today = new Date().toISOString().split('T')[0];
\* if (lastShown === today) return false; otherwise setItem(..., today) is issued
ReminderLastShown(c) ==
    /\ reminder[c].pc = "last"
    /\ reminder' = [reminder EXCEPT ![c] =
                       IF lastReminder = DateStr(today)
                       THEN [@ EXCEPT !.pc = "done", !.result = FALSE]
                       ELSE [@ EXCEPT !.pc = "set", !.today = DateStr(today)]]
    /\ UNCHANGED <<settings, lastReminder, shownToday>>
    /\ ReminderFrame

\* await AsyncStorage.setItem('@waterwise_last_reminder', today); return true
ReminderSet(c) ==
    /\ reminder[c].pc = "set"
    /\ lastReminder' = reminder[c].today
    /\ reminder' = [reminder EXCEPT ![c] = [@ EXCEPT !.pc = "done", !.result = TRUE]]
    /\ shownToday' = shownToday + 1
    /\ UNCHANGED settings
    /\ ReminderFrame

\* saveNotificationSettings(settings)
saveNotificationSettings(s) ==
    /\ settings' = s
    /\ UNCHANGED <<lastReminder, reminder, shownToday>>
    /\ ReminderFrame

InitReminder ==
    /\ InitOn({"native"}, <<>>, 0, <<>>, 0)
    /\ tz = 0

NextReminder ==
    \/ \E c \in Callers : shouldShowDailyReminder(c)
    \/ \E c \in Callers : ReminderSettings(c)
    \/ \E c \in Callers : ReminderLastShown(c)
    \/ \E c \in Callers : ReminderSet(c)
    \/ \E e, d \in BOOLEAN : saveNotificationSettings([enabled |-> e, dailyReminder |-> d])

SpecReminder == InitReminder /\ [][NextReminder]_vars

-----------------------------------------------------------------------------
(* cache.ts: setCache and getCache on table cache.  clock is Date.now().    *)

CacheFrame ==
    UNCHANGED <<file, reminderVars, lastInit, kept, monthsArg, platform, initPromise, tz,
                today, dbOpen, usage, bills, nextId, op, rd, adv>>

\* runAsync('INSERT OR REPLACE INTO cache (key, value, timestamp) VALUES (?, ?, ?)'):
\* WebDatabase.runAsync has no branch for table cache and stores nothing
InsertOrReplaceCache(key, valueStr, timestamp) ==
    IF platform = "web" THEN cache
    ELSE [cache EXCEPT ![key] = <<[value |-> valueStr, timestamp |-> timestamp]>>]

\* runAsync('DELETE FROM cache WHERE key = ?'), which WebDatabase.runAsync ignores too
deleteCache(key) == IF platform = "web" THEN cache ELSE [cache EXCEPT ![key] = <<>>]

\* setCache(key, value, ttlMinutes = 60): ttlMinutes is not used
setCache(key, value, ttlMinutes) ==
    /\ out.op = "none"
    /\ IF dbOpen
       THEN /\ cache' = InsertOrReplaceCache(key, JsonNumber(value), clock)
            /\ out' = Done("setCache", "returned", <<>>)
       ELSE /\ cache' = cache
            /\ out' = Done("setCache", "raised", <<>>)
    /\ UNCHANGED clock
    /\ CacheFrame

\* if (age > maxAge) with age = Date.now() - result.timestamp,
\* maxAge = ttlMinutes * 60 * 1000
Expired(row, ttlMinutes, now) == now - row.timestamp > ttlMinutes * 60 * 1000

\* getCache(key, ttlMinutes = 60)
getCache(key, ttlMinutes) ==
    /\ out.op = "none"
    /\ IF ~dbOpen
       THEN /\ cache' = cache
            /\ out' = Done("getCache", "raised", <<>>)
       ELSE IF cache[key] = <<>>
       THEN /\ cache' = cache
            /\ out' = Done("getCache", "returned", Null)
       ELSE IF Expired(cache[key][1], ttlMinutes, clock)
       THEN /\ cache' = deleteCache(key)
            /\ out' = Done("getCache", "returned", Null)
       ELSE /\ cache' = cache
            /\ out' = Done("getCache", "returned", cache[key][1].value)
    /\ UNCHANGED clock
    /\ CacheFrame

\* time passes, half a minute at a time
MaxClock == 4
Tick ==
    /\ clock < MaxClock * 30 * 1000
    /\ clock' = clock + 30 * 1000
    /\ UNCHANGED cache
    /\ UNCHANGED out
    /\ CacheFrame

CacheValues == {Num(20), Num(35)}
CacheTtls == {0, 1}

InitCache ==
    /\ InitOn(Platforms, <<>>, 0, <<>>, 0)
    /\ tz = 0

NextCache ==
    \/ \E k \in CacheKeys, v \in CacheValues, t \in {1, 60} : setCache(k, v, t)
    \/ \E k \in CacheKeys, t \in CacheTtls : getCache(k, t)
    \/ Tick
    \/ TakeResult

SpecCache == InitCache /\ [][NextCache]_vars

-----------------------------------------------------------------------------
(* What the claims compare the results with: sums, weekdays and months    *)
(* taken from the rows themselves.                                         *)

RECURSIVE SumOfLiters(_, _)
SumOfLiters(rows, S) ==
    IF S = {} THEN 0
    ELSE LET i == CHOOSE i \in S : TRUE IN rows[i].liters + SumOfLiters(rows, S \ {i})

RECURSIVE SumOfAmounts(_, _)
SumOfAmounts(rows, S) ==
    IF S = {} THEN 0
    ELSE LET i == CHOOSE i \in S : TRUE IN rows[i].amount + SumOfAmounts(rows, S \ {i})

\* the weekday of the calendar date YYYY-MM-DD, 0 = Sunday (1970-01-01 was a Thursday)
CalendarWeekday(date) == (DaysFromCivil(date.y, date.m, date.d) + 4) % 7

\* the YYYY-MM of the calendar date YYYY-MM-DD
CalendarMonth(date) == SubSeq(DateStr(date), 1, 7)

EventsOnWeekday(rows, w) == {i \in 1..Len(rows) : CalendarWeekday(rows[i].date) = w}
RowsInMonth(rows, M) == {i \in 1..Len(rows) : CalendarMonth(rows[i].date) = M}
DatesOf(rows, S) == {rows[i].date : i \in S}
WeekdayNumber(name) == CHOOSE w \in 0..6 : dayNames[w + 1] = name

PatternsInput == out.rd["pat.usage"].rows
PatternsDone == out.op = "patterns" /\ out.rd["pat.usage"].st = "ok"

\* C5: analyzeUsagePatterns returns one entry for each weekday on which some event
\* is dated and none for the other weekdays, in Sunday-to-Saturday order, and the
\* averageUsage of an entry is the sum of the liters of the events of its weekday
\* divided by their number.
PatternsPerWeekday ==
    PatternsDone =>
        /\ \A w \in 0..6 :
              (EventsOnWeekday(PatternsInput, w) # {})
                  <=> (\E j \in 1..Len(out.value) : out.value[j].dayOfWeek = dayNames[w + 1])
        /\ \A j, k \in 1..Len(out.value) :
              j < k => WeekdayNumber(out.value[j].dayOfWeek) < WeekdayNumber(out.value[k].dayOfWeek)
        /\ \A j \in 1..Len(out.value) :
              out.value[j].averageUsage =
                  Rat(SumOfLiters(PatternsInput,
                                  EventsOnWeekday(PatternsInput, WeekdayNumber(out.value[j].dayOfWeek))),
                      Cardinality(EventsOnWeekday(PatternsInput,
                                                  WeekdayNumber(out.value[j].dayOfWeek))))

TrendsUsage == out.rd["trend.usage"].rows
TrendsBills == out.rd["trend.bills"].rows
TrendsDone ==
    out.op = "trends" /\ out.rd["trend.usage"].st = "ok" /\ out.rd["trend.bills"].st = "ok"

\* C6: calculateMonthlyTrends with the default window returns at most 6 entries, and
\* their month keys are strictly ascending, so none is repeated.
TrendsWindowAscending ==
    out.op = "trends" =>
        /\ out.status = "returned"
        /\ Len(out.value) <= 6
        /\ \A j, k \in 1..Len(out.value) :
              j < k => StrLess(out.value[j].month, out.value[k].month)

\* more than six months hold rows, and six entries came back
TrendsWindowFull ==
    /\ TrendsDone
    /\ Cardinality({CalendarMonth(TrendsUsage[i].date) : i \in 1..Len(TrendsUsage)}
                   \cup {CalendarMonth(TrendsBills[i].date) : i \in 1..Len(TrendsBills)}) > 6
    /\ Len(out.value) = 6

\* C7: an entry of calculateMonthlyTrends for month M carries the sum of the liters of
\* the usage events dated in M, the sum of the amounts of the bills dated in M, and
\* the former divided by the number of distinct dates of M with an event, or by 1
\* when M has no event.
TrendsPerMonth ==
    TrendsDone =>
        \A j \in 1..Len(out.value) :
            /\ out.value[j].totalUsage =
                  Num(SumOfLiters(TrendsUsage, RowsInMonth(TrendsUsage, out.value[j].month)))
            /\ out.value[j].totalCost =
                  Num(SumOfAmounts(TrendsBills, RowsInMonth(TrendsBills, out.value[j].month)))
            /\ out.value[j].averageDaily =
                  Rat(SumOfLiters(TrendsUsage, RowsInMonth(TrendsUsage, out.value[j].month)),
                      IF RowsInMonth(TrendsUsage, out.value[j].month) = {} THEN 1
                      ELSE Cardinality(DatesOf(TrendsUsage,
                                               RowsInMonth(TrendsUsage, out.value[j].month))))

OpportunitiesInput == out.rd["opp.usage"].rows
OpportunitiesDone == out.op = "opportunities" /\ out.rd["opp.usage"].st = "ok"
OpportunitiesTotal == SumOfLiters(OpportunitiesInput, 1..Len(OpportunitiesInput))
OpportunitiesDays == Cardinality(DatesOf(OpportunitiesInput, 1..Len(OpportunitiesInput)))
HasCategory(c) == \E j \in 1..Len(out.value.list) : out.value.list[j].category = c

\* C8: on an empty usage collection identifySavingsOpportunities returns the empty
\* list and divides nothing; on a non-empty one it divides once, by the number of
\* distinct dates, which is at least 1.
OpportunitiesDivision ==
    OpportunitiesDone =>
        /\ Len(OpportunitiesInput) = 0 =>
              out.value.list = <<>> /\ out.value.divisors = <<>>
        /\ Len(OpportunitiesInput) > 0 =>
              out.value.divisors = <<OpportunitiesDays>> /\ OpportunitiesDays >= 1

OpportunitiesOfNothing ==
    /\ OpportunitiesDone
    /\ Len(OpportunitiesInput) = 0
    /\ out.status = "returned"
    /\ out.value.list = <<>>

EstimateOf(c) ==
    CASE c = "Shower & Bath" -> Rat(35 * OpportunitiesTotal, 100 * OpportunitiesDays)
      [] c = "Toilet"        -> Rat(27 * OpportunitiesTotal, 100 * OpportunitiesDays)
      [] c = "Kitchen"       -> Rat(20 * OpportunitiesTotal, 100 * OpportunitiesDays)
      [] c = "General"       -> Rat(OpportunitiesTotal, OpportunitiesDays)
TargetOf(c) ==
    CASE c = "Shower & Bath" -> 40 [] c = "Toilet" -> 24 [] c = "Kitchen" -> 15
      [] c = "General" -> 100
PriorityOf(c) == IF c \in {"Shower & Bath", "General"} THEN "high" ELSE "medium"

\* potentialSavings = (estimate - target) * 30, on the numerator of the estimate
SavingsOf(estimate, target) ==
    Rat((estimate[1] - target * estimate[2]) * 30, estimate[2])

\* C10: every opportunity carries its category's estimate as currentUsage, the
\* category's target (40, 24, 15, 100), (estimate - target) * 30 as potentialSavings
\* and the category's priority (high, medium, medium, high); a daily average of 200
\* gives General 200 / 100 / 3000 / high and Shower & Bath 70 / 40 / 900 / high.
OpportunitiesFields ==
    (OpportunitiesDone /\ Len(OpportunitiesInput) > 0) =>
        /\ \A j \in 1..Len(out.value.list) :
              /\ out.value.list[j].currentUsage = EstimateOf(out.value.list[j].category)
              /\ out.value.list[j].recommendedUsage = Num(TargetOf(out.value.list[j].category))
              /\ out.value.list[j].potentialSavings =
                    SavingsOf(EstimateOf(out.value.list[j].category),
                              TargetOf(out.value.list[j].category))
              /\ out.value.list[j].priority = PriorityOf(out.value.list[j].category)
        /\ OpportunitiesTotal = 200 * OpportunitiesDays =>
              /\ \E j \in 1..Len(out.value.list) :
                    out.value.list[j] =
                        [category |-> "General", currentUsage |-> Num(200),
                         recommendedUsage |-> Num(100), potentialSavings |-> Num(3000),
                         priority |-> "high"]
              /\ \E j \in 1..Len(out.value.list) :
                    out.value.list[j] =
                        [category |-> "Shower & Bath", currentUsage |-> Num(70),
                         recommendedUsage |-> Num(40), potentialSavings |-> Num(900),
                         priority |-> "high"]

\* a daily average of 200 over more than one day
OpportunitiesAt200 ==
    /\ OpportunitiesDone
    /\ OpportunitiesTotal = 200 * OpportunitiesDays
    /\ OpportunitiesDays > 1
    /\ Len(out.value.list) = 4


ReportOwnFailed == out.rd["own.usage"].st = "failed" \/ out.rd["own.bills"].st = "failed"
ZeroRows(r) == out.rd[r].st = "ok" /\ Len(out.rd[r].rows) = 0

\* C3: a generateUsageReport call whose own usage read or own bills read failed has
\* raised and returned no report, and no call goes on past such a failure; a returned
\* report built on reads of zero rows has the summary 0 / 0 / 0 / 0 and, for each
\* analysis whose reads found zero rows, the empty list.
ReportRaisesOnOwnFailure ==
    /\ op = "report" => rd["own.usage"].st # "failed" /\ rd["own.bills"].st # "failed"
    /\ out.op = "report" =>
          /\ ReportOwnFailed => out.status = "raised"
          /\ out.status = "returned" =>
                /\ (ZeroRows("own.usage") /\ ZeroRows("own.bills")) =>
                      out.value.summary = [totalDays |-> 0, totalUsage |-> Num(0),
                                           averageDaily |-> Num(0), totalCost |-> Num(0)]
                /\ ZeroRows("pat.usage") => out.value.patterns = <<>>
                /\ (ZeroRows("trend.usage") /\ ZeroRows("trend.bills")) =>
                      out.value.trends = <<>>
                /\ ZeroRows("opp.usage") => out.value.opportunities = <<>>

\* the bills read alone failed, after the usage read had succeeded
ReportRaisedOnBillsFailure ==
    /\ out.op = "report"
    /\ out.status = "raised"
    /\ out.rd["own.usage"].st = "ok"
    /\ out.rd["own.bills"].st = "failed"
    /\ \A r \in ReadNames \ {"own.bills"} : out.rd[r].st # "failed"

AnalysisList == IF out.op = "opportunities" THEN out.value.list ELSE out.value

\* C4: analyzeUsagePatterns, calculateMonthlyTrends and identifySavingsOpportunities
\* never raise, and return the empty list when one of their reads failed, the failure
\* of getDatabase() before the read included.
AnalysesDegradeToEmpty ==
    out.op \in {"patterns", "trends", "opportunities"} =>
        /\ out.status = "returned"
        /\ (\E r \in ReadNames : out.rd[r].st = "failed") => AnalysisList = <<>>

\* the bills read of calculateMonthlyTrends failed after its usage read had found rows
TrendsDegraded ==
    /\ out.op = "trends"
    /\ out.rd["trend.usage"].st = "ok"
    /\ Len(out.rd["trend.usage"].rows) > 0
    /\ out.rd["trend.bills"].st = "failed"
    /\ out.value = <<>>

\* C1: every generateRecommendations call returns, with at least one entry, whichever
\* of its reads and of the weather source succeed or throw.
RecommendationsNeverEmpty ==
    out.op = "recommendations" => out.status = "returned" /\ Len(out.value) >= 1

\* the database handle was not initialised when the call made its first read
RecommendationsWithoutDatabase ==
    /\ out.op = "recommendations"
    /\ out.adv.failed = 1
    /\ ~dbOpen
    /\ Len(out.value) = 1

\* C2: a generateRecommendations call in which a usage read or a bill read threw
\* returns exactly one entry, the low-priority 'Start Tracking' entry of type usage.
RecommendationsFallback ==
    (out.op = "recommendations" /\ out.adv.failed \in 1..LastRead) =>
        /\ out.status = "returned"
        /\ out.value = <<[type |-> "usage", priority |-> "low", title |-> "Start Tracking",
                          potentialSavings |-> Undefined]>>

\* a bill read threw after the usage analysis had found an average above 100
RecommendationsBillsThrew ==
    /\ out.op = "recommendations"
    /\ out.adv.failed \in {5, 6}
    /\ JsGt(out.adv.avgDailyUsage, Num(100))
    /\ Len(out.value) = 1
    /\ out.value[1].title = "Start Tracking"


PriorityRank(p) == IF p = "high" THEN 1 ELSE IF p = "medium" THEN 2 ELSE 3
EvaluationOrder(c) ==
    CASE c = "Shower & Bath" -> 1 [] c = "Toilet" -> 2 [] c = "Kitchen" -> 3 [] c = "General" -> 4

\* C11: in the list identifySavingsOpportunities returns no entry of a lower priority
\* precedes one of a higher priority, and entries of equal priority are in the order
\* the checks were made: Shower & Bath before General, Toilet before Kitchen.
OpportunitiesByPriorityStable ==
    OpportunitiesDone =>
        \A j, k \in 1..Len(out.value.list) :
            j < k =>
                /\ PriorityRank(out.value.list[j].priority)
                       <= PriorityRank(out.value.list[k].priority)
                /\ out.value.list[j].priority = out.value.list[k].priority =>
                       EvaluationOrder(out.value.list[j].category)
                           < EvaluationOrder(out.value.list[k].category)

\* all four checks fired: the sort moved General ahead of Toilet and Kitchen
OpportunitiesAllFour ==
    /\ OpportunitiesDone
    /\ Len(out.value.list) = 4
    /\ out.value.list[1].category = "Shower & Bath"
    /\ out.value.list[2].category = "General"
    /\ out.value.list[3].category = "Toilet"
    /\ out.value.list[4].category = "Kitchen"


AllRows(rows) == 1..Len(rows)

\* C12: the summary of a returned report has totalDays = the number of distinct dates
\* of the usage events, totalUsage = the sum of their liters, totalCost = the sum of the
\* bill amounts, and averageDaily = totalUsage / totalDays, or exactly 0 when
\* totalDays = 0; it is never NaN.
ReportSummary ==
    (out.op = "report" /\ out.status = "returned") =>
        /\ out.value.summary.totalDays = Cardinality(DatesOf(usage, AllRows(usage)))
        /\ out.value.summary.totalUsage = Num(SumOfLiters(usage, AllRows(usage)))
        /\ out.value.summary.totalCost = Num(SumOfAmounts(bills, AllRows(bills)))
        /\ out.value.summary.averageDaily =
              (IF Cardinality(DatesOf(usage, AllRows(usage))) > 0
               THEN Rat(SumOfLiters(usage, AllRows(usage)),
                        Cardinality(DatesOf(usage, AllRows(usage))))
               ELSE Num(0))
        /\ out.value.summary.averageDaily # NaN

\* three events on two dates and two bills: 420 L / 2 days = 210, cost 75
ReportSummaryOfTwoDays ==
    /\ out.op = "report"
    /\ out.status = "returned"
    /\ Len(usage) = 3
    /\ out.value.summary = [totalDays |-> 2, totalUsage |-> Num(420),
                            averageDaily |-> Num(210), totalCost |-> Num(75)]


\* a generateRecommendations call has returned and none of its usage and bill reads threw
RecommendationsDone == out.op = "recommendations" /\ out.adv.failed = 0

TitlesAt(list, titles) == {i \in 1..Len(list) : list[i].title \in titles}

UsageLevelTitles == {"Reduce Daily Water Usage", "Excellent Water Conservation!"}

Exceeds(r, fn, o) == 10 * r[1] * o[2] > fn * o[1] * r[2]

CostTitles == {"Reduce Water Costs"}

\* C15: the result holds the medium cost recommendation of type 'bill' if and only if the
\* total consumption is above 0 and the sum of the bill amounts divided by it is above
\* 0.01, with potentialSavings = that quotient * 1000; with no bills or with a total
\* consumption of 0 the cost per liter is 0, without a division, and there is no cost
\* recommendation.
RecommendationsCost ==
    RecommendationsDone =>
        /\ out.adv.totalConsumption[2] = 1
        /\ Cardinality(TitlesAt(out.value, CostTitles))
               = (IF /\ out.adv.totalConsumption[1] > 0
                     /\ 100 * SumOfAmounts(out.adv.bills, AllRows(out.adv.bills))
                            > out.adv.totalConsumption[1]
                  THEN 1 ELSE 0)
        /\ \A i \in TitlesAt(out.value, CostTitles) :
               out.value[i] =
                   [type |-> "bill", priority |-> "medium", title |-> "Reduce Water Costs",
                    potentialSavings |->
                        Rat(SumOfAmounts(out.adv.bills, AllRows(out.adv.bills)) * 1000,
                            out.adv.totalConsumption[1])]
        /\ (Len(out.adv.bills) = 0 \/ out.adv.totalConsumption[1] = 0) =>
               /\ out.adv.averageCostPerLiter = Num(0)
               /\ TitlesAt(out.value, CostTitles) = {}

\* bills of 30 and 12 for 1500 L and 0 L: 42 / 1500 = 0.028, savings 28
RecommendationsCostly ==
    /\ RecommendationsDone
    /\ Len(out.adv.bills) = 2
    /\ out.adv.totalConsumption = Num(1500)
    /\ out.value[Len(out.value)].title = "Reduce Water Costs"
    /\ out.value[Len(out.value)].potentialSavings = Num(28)


\* a run with a cost per liter of 0.02 in which no other condition fires: the 30-day
\* average is not above 100, the trend is not increasing, the precipitation is not below 1
CostOnlyRun ==
    /\ RecommendationsDone
    /\ out.adv.averageCostPerLiter = Rat(1, 50)
    /\ out.adv.avgDailyUsage[1] <= 100 * out.adv.avgDailyUsage[2]
    /\ out.adv.trend # "increasing"
    /\ out.adv.weather = "ok"
    /\ out.adv.precipitation[1] >= out.adv.precipitation[2]

CostRecommendation20 ==
    [type |-> "bill", priority |-> "medium", title |-> "Reduce Water Costs",
     potentialSavings |-> Num(20)]

\* C16 as stated: in such a run the result is the cost recommendation with
\* potentialSavings = 20 and no other entry.
RecommendationsCostOnly == CostOnlyRun => out.value = <<CostRecommendation20>>

\* C16: in a run with a cost per liter of 0.02 and no other condition firing the result
\* is exactly two entries: the low-priority usage-level recommendation, then the cost
\* recommendation with potentialSavings = 20.
RecommendationsCostAfterUsage ==
    CostOnlyRun =>
        out.value = <<[type |-> "usage", priority |-> "low",
                       title |-> "Excellent Water Conservation!",
                       potentialSavings |-> Undefined],
                      CostRecommendation20>>

\* one bill of 30 for 1500 L, 50 L used two weeks ago, 12 mm of rain
RecommendationsCostOnlyRun ==
    /\ CostOnlyRun
    /\ out.adv.avgDailyUsage = Num(50)
    /\ out.adv.precipitation = Num(12)
    /\ Len(out.value) = 2


RegionalTitles == {"Low Rainfall in Your Area"}

\* C17: the high-priority 'Low Rainfall in Your Area' recommendation is in the result
\* only when the weather source delivered a precipitation reading and the reading is
\* below 1 mm: not when the reading is 1 mm or more, nor when no reading was obtained.
RecommendationsRegionalOnReading ==
    (RecommendationsDone /\ TitlesAt(out.value, RegionalTitles) # {}) =>
        /\ out.adv.weather = "ok"
        /\ out.adv.precipitation[1] < out.adv.precipitation[2]

\* the weather source failed
WeatherFailed == out.op = "recommendations" /\ out.adv.weather = "failed"

\* C18: a failure of the weather source is not surfaced: getRegionalWaterContext resolves
\* with the zero-valued reading and the text 'Unable to fetch regional weather data.',
\* generateRecommendations does not take its catch block for it, and the usage-level,
\* trend and cost recommendations are computed from what the store returned.
WeatherFailureContained ==
    WeatherFailed =>
        /\ out.status = "returned"
        /\ out.adv.failed = 0
        /\ out.adv.regional =
               [temperature |-> Num(0), humidity |-> Num(0), precipitation |-> Num(0),
                recommendation |-> "Unable to fetch regional weather data."]
        /\ TitlesAt(out.value, {"Start Tracking"}) = {}
        /\ TitlesAt(out.value, UsageLevelTitles) = {1}
        /\ out.value[1].priority =
               (IF out.adv.avgDailyUsage[1] > 100 * out.adv.avgDailyUsage[2]
                THEN "high" ELSE "low")
        /\ Cardinality(TitlesAt(out.value, {"Usage Trend Alert"}))
               = (IF Exceeds(out.adv.recentAvg, 11, out.adv.olderAvg) THEN 1 ELSE 0)
        /\ Cardinality(TitlesAt(out.value, CostTitles))
               = (IF /\ out.adv.totalConsumption[1] > 0
                     /\ 100 * SumOfAmounts(out.adv.bills, AllRows(out.adv.bills))
                            > out.adv.totalConsumption[1]
                  THEN 1 ELSE 0)

\* the weather source failed in a run with a rising average of 150 and bills at 0.02
WeatherFailedAllComputed ==
    /\ WeatherFailed
    /\ out.adv.avgDailyUsage = Num(150)
    /\ out.adv.averageCostPerLiter = Rat(1, 50)
    /\ out.value[1].title = "Reduce Daily Water Usage"
    /\ out.value[2].title = "Usage Trend Alert"
    /\ out.value[Len(out.value)].title = "Reduce Water Costs"


\* the call that has just settled is the one the caller made before, with the same
\* weather answer if it is generateRecommendations
CalledAgain ==
    /\ out.op # "none"
    /\ kept.op = out.op
    /\ out.adv.weather = kept.adv.weather
    /\ out.adv.regional = kept.adv.regional

SameOutput == CalledAgain => (out.status = kept.status /\ out.value = kept.value)

ReportAllRead ==
    /\ out.op = "report"
    /\ out.status = "returned"
    /\ \A r \in ReadNames : out.rd[r].st = "ok"

\* C20: a report that generateUsageReport returns is computed from one snapshot of the
\* store, whatever addUsage, deleteUsage and addBill calls run between its reads: its
\* summary, patterns, trends and opportunities come from the same usage events and the
\* same bills, so that summary.totalDays = 0 exactly when patterns is empty.
ReportOneSnapshot ==
    ReportAllRead =>
        /\ \A r \in UsageReads : out.rd[r].rows = out.rd["own.usage"].rows
        /\ out.rd["trend.bills"].rows = out.rd["own.bills"].rows
        /\ out.value.summary.totalDays = 0 <=> out.value.patterns = <<>>


\* C21: generateUsageReport completes, by returning or by raising, only after each
\* branch it started has completed: its usage read, its bill read, analyzeUsagePatterns,
\* calculateMonthlyTrends and identifySavingsOpportunities; it never raises while one
\* of them is still running.
ReportJoinsAllBranches ==
    out.op = "report" =>
        /\ out.rd["own.usage"].st \in {"ok", "failed"}
        /\ out.rd["own.bills"].st \in {"ok", "failed"}
        /\ PatternsBranch(out.rd).st # "running"
        /\ TrendsBranch(out.rd).st # "running"
        /\ OpportunitiesBranch(out.rd).st # "running"


\* C22: after any sequence of addUsage and deleteUsage calls no two usage events in the
\* store have the same id, on SQLite and on the localStorage store alike, so that
\* deleteUsage(id) removes at most one event.
UsageIdsUnique ==
    \A i, j \in 1..Len(usage) : usage[i].id = usage[j].id => i = j


\* the month keys of the rows calculateMonthlyTrends read
TrendsMonths ==
    {CalendarMonth(TrendsUsage[i].date) : i \in 1..Len(TrendsUsage)}
        \cup {CalendarMonth(TrendsBills[i].date) : i \in 1..Len(TrendsBills)}

TrendsKeys == {out.value[j].month : j \in 1..Len(out.value)}

\* C24: for every window N >= 0, calculateMonthlyTrends(N) returns at most N entries:
\* the N greatest month keys among the months of the usage events and of the bills (all
\* of them when there are fewer than N), oldest first.
TrendsWindowOfN ==
    TrendsDone =>
        /\ Len(out.value) <= monthsArg
        /\ Len(out.value) =
               (IF Cardinality(TrendsMonths) < monthsArg THEN Cardinality(TrendsMonths)
                ELSE monthsArg)
        /\ TrendsKeys \subseteq TrendsMonths
        /\ \A k \in TrendsMonths \ TrendsKeys : \A m \in TrendsKeys : StrLess(k, m)
        /\ \A j, k \in 1..Len(out.value) :
              j < k => StrLess(out.value[j].month, out.value[k].month)


\* C25: a record dated YYYY-MM-DD is counted by analyzeUsagePatterns under the weekday
\* of that calendar date and by calculateMonthlyTrends under the month key YYYY-MM,
\* whatever the UTC offset of the device is: positive, zero or negative.
DatesCountedAsWritten ==
    /\ PatternsDone =>
           {WeekdayNumber(out.value[j].dayOfWeek) : j \in 1..Len(out.value)}
               = {CalendarWeekday(PatternsInput[i].date) : i \in 1..Len(PatternsInput)}
    /\ TrendsDone => TrendsKeys = TrendsMonths


\* C26: the opportunities identifySavingsOpportunities returns are nested by threshold:
\* General implies Shower & Bath, Shower & Bath implies Toilet, Toilet implies Kitchen;
\* and every returned opportunity has currentUsage > recommendedUsage and
\* potentialSavings > 0.
OpportunitiesNested ==
    OpportunitiesDone =>
        /\ HasCategory("General") => HasCategory("Shower & Bath")
        /\ HasCategory("Shower & Bath") => HasCategory("Toilet")
        /\ HasCategory("Toilet") => HasCategory("Kitchen")
        /\ \A j \in 1..Len(out.value.list) :
              /\ JsGt(out.value.list[j].currentUsage, out.value.list[j].recommendedUsage)
              /\ JsGt(out.value.list[j].potentialSavings, Num(0))

\* a daily average between the Toilet and the Shower & Bath thresholds: two opportunities
OpportunitiesToiletAndKitchen ==
    /\ OpportunitiesDone
    /\ HasCategory("Toilet")
    /\ HasCategory("Kitchen")
    /\ ~HasCategory("Shower & Bath")
    /\ Len(out.value.list) = 2


\* C27: on the native platform, whenever a call of initDatabase() has resolved
\* successfully, the database is open afterwards - getDatabase() returns a handle and
\* does not throw - also when closeDatabase() had been called before it.
\* After an initDatabase() that failed, a later one attempts to open again.
InitDatabaseOpens ==
    platform = "native" =>
        /\ lastInit = "resolved" => dbOpen
        /\ lastInit = "rejected" => ~initPromise /\ ~dbOpen


\* C23: after any sequence of record-creating operations - the usage screen's add, the
\* add-bill screen's save, importFromJSON - every stored usage event has liters > 0 and
\* every stored bill has amount > 0 and consumptionLiters > 0.
RecordsPositive ==
    /\ \A i \in 1..Len(usage) : usage[i].liters # Null /\ JsGt(usage[i].liters, Num(0))
    /\ \A i \in 1..Len(bills) :
          /\ bills[i].amount # Null /\ JsGt(bills[i].amount, Num(0))
          /\ bills[i].consumptionLiters # Null /\ JsGt(bills[i].consumptionLiters, Num(0))

SameBill(a, b) ==
    /\ a.id = b.id
    /\ a.amount = b.amount
    /\ a.date = b.date
    /\ a.consumptionLiters = b.consumptionLiters
    /\ a.currency = b.currency

SameUsage(a, b) ==
    /\ a.liters = b.liters
    /\ a.date = b.date
    /\ a.time = b.time
    /\ a.category = b.category
    /\ a.location = b.location
    /\ a.description = b.description

\* `stored` holds the records of `exported`, each as often, and nothing else
Recreated(stored, exported, Same(_, _)) ==
    /\ Len(stored) = Len(exported)
    /\ \A i \in 1..Len(exported) :
          Cardinality({j \in 1..Len(stored) : Same(stored[j], exported[i])})
              = Cardinality({j \in 1..Len(exported) : Same(exported[j], exported[i])})

ImportOfExport == file.version # Null /\ ImportIntoEmpty

\* C30: importFromJSON of the data exportToJSON wrote, into an empty store, recreates
\* every bill with the same id, amount, date, consumptionLiters and currency and every
\* usage event with the same liters, date, time, category, location and description,
\* and billsImported and usageImported equal the numbers of records exported.
ExportImportRoundTrip ==
    [][ImportOfExport =>
          /\ out'.status = "returned"
          /\ out'.value.billsImported = Len(file.bills)
          /\ out'.value.usageImported = Len(file.usage)
          /\ Recreated(bills', file.bills, SameBill)
          /\ Recreated(usage', file.usage, SameUsage)]_vars


\* C28: with the reminders enabled, of all the shouldShowDailyReminder() calls made on
\* one calendar date, one after the other or overlapping, at most one returns true; a
\* call that finds notifications or the daily reminder disabled returns false and
\* does not write the last-reminder date.
ReminderOncePerDay ==
    /\ shownToday <= 1
    /\ \A c \in Callers :
          /\ reminder[c].pc = "set" => reminder[c].enabled
          /\ (reminder[c].pc = "done" /\ ~reminder[c].enabled) => ~reminder[c].result

\* C29: a getCache(key, ttl) made t - t0 after setCache(key, v) returns v and leaves
\* the entry when t - t0 <= ttl minutes, and returns null and deletes the entry when
\* t - t0 > ttl minutes, whatever ttl setCache was given; a later setCache for the
\* key replaces the value and restarts its age.
CacheWithinTtl ==
    [][/\ \A k \in CacheKeys, v \in CacheValues, t \in {1, 60} :
             (setCache(k, v, t) /\ out'.status = "returned") =>
                 cache'[k] = <<[value |-> v, timestamp |-> clock]>>
       /\ \A k \in CacheKeys, t \in CacheTtls :
             (getCache(k, t) /\ cache[k] # <<>>) =>
                 IF clock - cache[k][1].timestamp <= t * 60 * 1000
                 THEN out'.value = cache[k][1].value /\ cache' = cache
                 ELSE out'.value = Null /\ cache'[k] = <<>>]_vars


====
